---- MODULE Spec2Model ----
\* Layered grid storage of pytiling: GridMap, GridLayer / TilemapLayer and
\* GridElement / Tile, with add_element, removal, and directional resizing.
EXTENDS Integers, Sequences, FiniteSets, TLC

\* ---------------------------------------------------------------- bounds
\* the map of Spec is one row of LW cells
LW == 2
\* the map of SpecMap and SpecSize is constructed with these bounds
MinW == 1
MinH == 1
MaxW == 2
MaxH == 2
\* largest size argument of expand_towards / reduce_towards
MaxN == 1
\* largest number of elements stored at once, in Spec and in SpecMap
MaxElems == 2
MaxMapElems == 1
\* the width of the one-layer tile map and the number of tiles it may hold
TW == 2
MaxTiles == 2
MaxLists == 4
MaxRuleLen == 2
\* the rule codes 0..MaxCell fill the base matrices handed to get_rule_group,
\* and the base displays are (x, x + 1) for x in 0..MaxD
MaxCell == 1
MaxD == 1
\* the chances handed to add_variation, and the largest sum of chances the
\* tiles of the map reach together
MaxChance == 1
MaxChanceSum == 2
\* the size of the traced tile map and the number of tiles it holds
BW == 3
BH == 3
MaxTraced == 3
MaxOrdered == 2
\* the size of the queried tile map, the number of tiles it holds and the
\* largest radius of a neighbour query
QW == 2
QH == 2
MaxQueried == 2
MaxRadius == 2

\* the two layer objects: "A" is a plain GridLayer that stores GridElements,
\* "B" is a TilemapLayer that stores Tiles
Layers == {"A", "B"}
LayerKind == [A |-> "GridLayer", B |-> "TilemapLayer"]
ElementKind == [A |-> "GridElement", B |-> "Tile"]
Directions == {"left", "right", "top", "bottom"}

\* An element is a record [position, name, unique, locked, layer, kind]; a
\* cell holds one by reference and, in these specifications, no element is
\* ever held by two cells, so a cell is modelled as holding the record.
\* layer is the back-reference _layer ("" while it is None).
Element(position, name, unique, locked, layer, kind) ==
    [position |-> position, name |-> name, unique |-> unique,
     locked |-> locked, layer |-> layer, kind |-> kind]
\* Python's None in a grid cell or as a returned element
None == Element(<<0, 0>>, "", FALSE, FALSE, "", "None")
\* the constant np.pad writes before the new strip is filled
PadZero == Element(<<0, 0>>, "", FALSE, FALSE, "", "0")
\* the map of Spec is constructed with min = max = LSize
LSize == <<LW, 1>>
\* the cells of the map of Spec, and the positions next to it: one past its
\* right edge, one past its bottom edge, one before its left edge
Positions == (0..(LSize[1] - 1)) \X (0..(LSize[2] - 1))
OutOfBounds == {<<LSize[1], 0>>, <<0, LSize[2]>>, <<-1, 0>>}
\* the same for SpecMap: the cells of the largest map
MapPositions == (0..(MaxW - 1)) \X (0..(MaxH - 1))
\* the attributes an element of Spec is constructed with: a plain "wall", a
\* unique "door", and a "door" that is locked right after its construction
ElementInputs ==
    { [name |-> "wall", unique |-> FALSE, locked |-> FALSE],
      [name |-> "door", unique |-> TRUE, locked |-> FALSE],
      [name |-> "door", unique |-> FALSE, locked |-> TRUE] }
\* layer._grid before initialize_grid
NoneGrid == [rows |-> -1, cols |-> -1, cells |-> <<>>]

VARIABLES
    min_grid_size,      \* GridMap.min_grid_size, set by the constructor
    max_grid_size,      \* GridMap.max_grid_size, set by the constructor
    grid_size,          \* GridMap._grid_size, <<width, height>>
    layers,             \* GridMap._layers, sequence of layer names
    grid,               \* GridLayer._grid of each layer: rows, cols, cells[<<y, x>>]
    concurrent_layers,  \* GridLayer.concurrent_layers of each layer
    events,             \* signals sent by the last call, in order
    last,               \* the last call: operation, arguments, returned value
    tracer,             \* the TilemapBorderTracer of layer B: nodes, lines
    rulebook,           \* TilemapLayer.autotile_rules of layer B: the list
                        \* objects and the dict from group name to list
    cached              \* the values the cached properties index, layer_above
                        \* and layer_below of each layer hold

vars == <<min_grid_size, max_grid_size, grid_size, layers, grid, concurrent_layers, events, last,
          tracer, rulebook, cached>>

\* ---------------------------------------------------------------- helpers
Range(s) == {s[i] : i \in DOMAIN s}

Max2(a, b) == IF a >= b THEN a ELSE b
Min2(a, b) == IF a <= b THEN a ELSE b
Abs(a) == IF a < 0 THEN -a ELSE a

direction_vectors ==
    [left |-> <<-1, 0>>, right |-> <<1, 0>>, top |-> <<0, -1>>, bottom |-> <<0, 1>>]

opposite_directions ==
    [left |-> "right", right |-> "left", top |-> "bottom", bottom |-> "top"]

NoCall ==
    [op |-> "init", layer |-> "", position |-> <<0, 0>>, element |-> None,
     direction |-> "", size |-> 0, ret |-> "", apply_formatting |-> FALSE,
     warnings |-> 0, same_autotile_object |-> FALSE, positions |-> {}, undo |-> FALSE,
     chosen_chance |-> 0, repeat |-> 0,
     adjacency_rule |-> "", radius |-> 0, result |-> <<>>, name |-> "",
     before |-> [grid_size |-> <<0, 0>>, grid |-> [l \in Layers |-> NoneGrid]]]

\* the element of a one-element set; {F(x) : x \in {e}} names the value of e
Only(S) == CHOOSE x \in S : TRUE

Event(name, element, layer, g) ==
    [name |-> name, element |-> element, layer |-> layer, grid |-> g]

\* events[name].send(...) on machine state m: the subscribers are called at
\* once and see the grids of m
send(m, name, element, layer) ==
    Only({[s EXCEPT !.events = Append(@, Event(name, element, layer, s.grid))] : s \in {m}})

\* ---------------------------------------------------------------- GridMap
clamp_size(size) ==
    << Max2(min_grid_size[1], Min2(size[1], max_grid_size[1])),
       Max2(min_grid_size[2], Min2(size[2], max_grid_size[2])) >>

\* ---------------------------------------------------------------- GridLayer
\* GridLayer.grid_size: (shape[1], shape[0])
GridLayer_grid_size(g) == <<g.cols, g.rows>>

\* np.empty((size[1], size[0]), dtype=object): every cell None
np_empty(rows, cols) ==
    [rows |-> rows, cols |-> cols,
     cells |-> [p \in (0..(rows - 1)) \X (0..(cols - 1)) |-> None]]

initialize_grid(g, size) ==
    IF g = NoneGrid THEN np_empty(size[2], size[1]) ELSE g

\* position_is_valid without the comparisons with 0
LayerChecker_position_is_valid_no_lower_bound(g, position) ==
    /\ position[1] < GridLayer_grid_size(g)[1]
    /\ position[2] < GridLayer_grid_size(g)[2]

LayerChecker_position_is_valid(g, position) ==
    /\ position[1] >= 0
    /\ position[2] >= 0
    /\ position[1] < GridLayer_grid_size(g)[1]
    /\ position[2] < GridLayer_grid_size(g)[2]

\* GridMap.position_is_valid(position), size being the map's grid_size
GridMap_position_is_valid(size, position) ==
    /\ position[1] >= 0
    /\ position[2] >= 0
    /\ position[1] < size[1]
    /\ position[2] < size[2]

\* numpy's index i of an axis of length n: a negative index counts from the end
np_index(i, n) == IF i < 0 THEN i + n ELSE i

\* the cell self.grid[position[1], position[0]]
Cell(g, position) == <<np_index(position[2], g.rows), np_index(position[1], g.cols)>>

get_element_at(g, position) ==
    IF LayerChecker_position_is_valid(g, position)
    THEN g.cells[Cell(g, position)]
    ELSE None

\* self.grid[position[1], position[0]] = value
SetCell(g, position, value) ==
    [g EXCEPT !.cells[Cell(g, position)] = value]

\* A machine state m of a call in progress: [grid, events, warnings], the
\* layers' grids, the signals sent so far and the number of warnings issued.

\* _remove_element that sends the event and leaves the cell as it is
_remove_element_keeps_cell(m, l, element) ==
    send(m, "element_removed", element, l)

\* GridLayer._remove_element(element)
_remove_element(m, l, element) ==
    send([m EXCEPT !.grid[l] = SetCell(@, element.position, None)],
         "element_removed", element, l)

\* GridLayer.remove_element(element)
remove_element(m, l, element) ==
    LET m1 == _remove_element(m, l, element)
    IN  send(m1, "element_directly_removed", element, l)

\* ------------------------------------------------------ tiles and autotiling
\* Tile(position, display, name)
Tile(position, display, name) ==
    [position |-> position, name |-> name, unique |-> FALSE, locked |-> FALSE,
     layer |-> "", kind |-> "Tile", display |-> display,
     variations |-> <<>>, variations_chance_sum |-> 0]

\* AutotileTile(position, name): the display starts as (0, 0); rules names
\* the list object the attribute refers to, 0 being the empty list the
\* constructor makes
AutotileTile(position, name) ==
    [position |-> position, name |-> name, unique |-> FALSE, locked |-> FALSE,
     layer |-> "", kind |-> "AutotileTile", display |-> <<0, 0>>,
     variations |-> <<>>, variations_chance_sum |-> 0, rules |-> 0]

\* Tile.add_variation(display, chance): variations is a dict in insertion
\* order, a sequence of <<display, chance>> here; a display already present
\* keeps its place and takes the new chance, and the sum grows in both cases
add_variation(tile, display, chance) ==
    [tile EXCEPT
        !.variations =
            IF \E i \in DOMAIN @ : @[i][1] = display
            THEN [i \in DOMAIN @ |-> IF @[i][1] = display THEN <<display, chance>> ELSE @[i]]
            ELSE Append(@, <<display, chance>>),
        !.variations_chance_sum = @ + chance]

\* Tile.reset_variations()
reset_variations(tile) ==
    [tile EXCEPT !.variations = <<>>, !.variations_chance_sum = 0]

\* the scan that compares with <= : an entry is taken as soon as the
\* accumulated weight reaches the draw
RECURSIVE ScanVariations_inclusive(_, _, _, _)
ScanVariations_inclusive(tile, chosen_chance, i, chance_sum) ==
    IF i > Len(tile.variations) THEN tile
    ELSE IF chosen_chance <= chance_sum + tile.variations[i][2]
         THEN [tile EXCEPT !.display = tile.variations[i][1]]
         ELSE ScanVariations_inclusive(tile, chosen_chance, i + 1,
                                       chance_sum + tile.variations[i][2])

\* the loop of set_variation_display from entry i on, chance_sum being the
\* weight accumulated so far
RECURSIVE ScanVariations(_, _, _, _)
ScanVariations(tile, chosen_chance, i, chance_sum) ==
    IF i > Len(tile.variations) THEN tile
    ELSE IF chosen_chance < chance_sum + tile.variations[i][2]
         THEN [tile EXCEPT !.display = tile.variations[i][1]]
         ELSE ScanVariations(tile, chosen_chance, i + 1, chance_sum + tile.variations[i][2])

\* Tile.set_variation_display(); chosen_chance is the integer part of
\* random.random() * variations_chance_sum, which decides the entry when the
\* chances are integers
set_variation_display(tile, chosen_chance) ==
    IF Len(tile.variations) > 0 THEN ScanVariations(tile, chosen_chance, 1, 0)
    ELSE tile

\* the values chosen_chance can take for a tile
Draws(tile) ==
    IF Len(tile.variations) > 0 /\ tile.variations_chance_sum > 0
    THEN 0..(tile.variations_chance_sum - 1)
    ELSE {0}

\* the string "out_of_grid" the neighbor processor returns for a position
\* outside the grid
OutOfGrid == Element(<<0, 0>>, "", FALSE, FALSE, "", "out_of_grid")
\* the AttributeError of reading tile_object, which no tile defines
AttributeError == Element(<<0, 0>>, "", FALSE, FALSE, "", "AttributeError")

\* AutotileRule(rule_matrix, display); a matrix is a sequence of rows
AutotileRule(rule_matrix, display) == [rule_matrix |-> rule_matrix, display |-> display]

\* matrix[::-1]
Reversed(s) == [i \in 1..Len(s) |-> s[Len(s) + 1 - i]]

\* [list(row) for row in zip(*matrix)]
Zip(matrix) ==
    IF matrix = <<>> THEN <<>>
    ELSE [c \in 1..Len(matrix[1]) |-> [r \in 1..Len(matrix) |-> matrix[r][c]]]

\* rotate_matrix whose 270 branch forgets the final [::-1]
rotate_matrix_270_not_reversed(matrix, angle) ==
    CASE angle = 0 -> matrix
      [] angle = 90 -> Zip(Reversed(matrix))
      [] angle = 180 -> [r \in 1..Len(matrix) |-> Reversed(Reversed(matrix)[r])]
      [] angle = 270 -> Zip(matrix)

\* rotate_matrix(matrix, angle)
rotate_matrix(matrix, angle) ==
    CASE angle = 0 -> matrix
      [] angle = 90 -> Zip(Reversed(matrix))
      [] angle = 180 -> [r \in 1..Len(matrix) |-> Reversed(Reversed(matrix)[r])]
      [] angle = 270 -> Reversed(Zip(matrix))

\* s[:amount]
Take(s, amount) == SubSeq(s, 1, Min2(amount, Len(s)))

\* get_rule_group(rule_matrix, display, amount)
get_rule_group(rule_matrix, display, amount) ==
    IF amount <= 0 \/ amount > 4 THEN <<"ValueError">>
    ELSE
    LET x == display[1]
        y == display[2]
        angles == IF amount = 2 THEN <<0, 90>> ELSE Take(<<0, 90, 180, 270>>, amount)
        displays == IF amount = 2 THEN << <<x, y>>, <<x, y + 1>> >>
                    ELSE Take(<< <<x, y>>, <<x + 1, y>>, <<x + 1, y + 1>>, <<x, y + 1>> >>, amount)
    IN  [k \in 1..Min2(Len(angles), Len(displays)) |->
            AutotileRule(rotate_matrix(rule_matrix, angles[k]), displays[k])]

\* TilemapLayerNeighborProcessor._generate_positions for adjacency "eight" and
\* "four", in the order the list is built
_generate_positions(adjacency_rule, center_position, radius) ==
    LET n == 2 * radius + 1
        all == [i \in 1..(n * n) |->
                   <<center_position[1] + ((i - 1) \div n) - radius,
                     center_position[2] + ((i - 1) % n) - radius>>]
    IN  IF adjacency_rule = "eight"
        THEN SelectSeq(all, LAMBDA p : p # center_position)
        ELSE << <<center_position[1] + 1, center_position[2]>>,
                <<center_position[1], center_position[2] - 1>>,
                <<center_position[1] - 1, center_position[2]>>,
                <<center_position[1], center_position[2] + 1>> >>

\* TilemapLayerNeighborProcessor._get_neighbor_of_tile_at(tile, x, y) on the
\* layer's grid g; None when the position is no neighbor
_get_neighbor_of_tile_at(g, same_autotile_object, tile, position) ==
    IF ~LayerChecker_position_is_valid(g, position) THEN OutOfGrid
    ELSE LET neighbor == get_element_at(g, position)
         IN  IF same_autotile_object
             THEN IF /\ neighbor # None
                     /\ tile.kind = "AutotileTile"
                     /\ neighbor.kind = "AutotileTile"
                  THEN AttributeError
                  ELSE None
             ELSE neighbor

\* get_neighbors_bool_grid(tile, radius): a matrix of rows, True where
\* _for_neighbor_of met a neighbor
get_neighbors_bool_grid(g, adjacency_rule, same_autotile_object, tile, radius) ==
    IF adjacency_rule = "four" /\ radius # 1 THEN <<"ValueError">>
    ELSE Only({Only({
        LET n == 2 * radius + 1
        IN  IF \E i \in DOMAIN positions : neighbor[i] = AttributeError
            THEN <<"AttributeError">>
            ELSE [oy \in 1..n |-> [ox \in 1..n |->
                     \E i \in DOMAIN positions :
                         /\ positions[i] = <<tile.position[1] + ox - 1 - radius,
                                             tile.position[2] + oy - 1 - radius>>
                         /\ neighbor[i] # None]] :
        neighbor \in {[i \in DOMAIN positions |->
                         _get_neighbor_of_tile_at(g, same_autotile_object, tile, positions[i])]}}) :
        positions \in {_generate_positions(adjacency_rule, tile.position, radius)}})

\* an offset that leaves the radius out
calculate_offset_without_radius(position, tile, radius) ==
    <<position[1] - tile.position[1], position[2] - tile.position[2]>>

\* TilemapLayerNeighborProcessor.calculate_offset(position, tile, radius)
calculate_offset(position, tile, radius) ==
    <<(position[1] - tile.position[1]) + radius, (position[2] - tile.position[2]) + radius>>

\* _for_neighbor_of(callback, tile, radius): the calls of callback, in order,
\* or the error that ended the walk. _generate_positions raises ValueError
\* for adjacency "four" with a radius other than 1
_for_neighbor_of(g, adjacency_rule, same_autotile_object, tile, radius) ==
    IF adjacency_rule = "four" /\ radius # 1
    THEN [error |-> "ValueError", calls |-> <<>>]
    ELSE Only({Only({IF \E i \in DOMAIN calls : calls[i].neighbor = AttributeError
                     THEN [error |-> "AttributeError", calls |-> <<>>]
                     ELSE [error |-> "",
                           calls |-> SelectSeq(calls, LAMBDA c : c.neighbor # None)] :
                     calls \in {[i \in DOMAIN positions |->
                         [neighbor |-> _get_neighbor_of_tile_at(g, same_autotile_object, tile,
                                                                positions[i]),
                          position |-> positions[i]]]}}) :
               positions \in {_generate_positions(adjacency_rule, tile.position, radius)}})

\* get_amount_of_neighbors_of(tile, radius): one more for every call
get_amount_of_neighbors_of(g, adjacency_rule, same_autotile_object, tile, radius) ==
    Only({[error |-> walk.error, ret |-> Len(walk.calls)] :
          walk \in {_for_neighbor_of(g, adjacency_rule, same_autotile_object, tile, radius)}})

\* the callback of get_neighbors_of called for calls[i] and the ones after it:
\* neighbors[offset_y, offset_x] = neighbor
RECURSIVE WriteNeighbors(_, _, _, _, _)
WriteNeighbors(neighbors, calls, i, tile, radius) ==
    IF i > Len(calls) THEN neighbors
    ELSE LET offset == calculate_offset(calls[i].position, tile, radius)
         IN  WriteNeighbors([neighbors EXCEPT ![offset[2] + 1][offset[1] + 1] = calls[i].neighbor],
                            calls, i + 1, tile, radius)

\* get_neighbors_of(tile, radius): np.empty of dtype object is a matrix of
\* None, which the callback writes
get_neighbors_of(g, adjacency_rule, same_autotile_object, tile, radius) ==
    Only({LET n == 2 * radius + 1
          IN  [error |-> walk.error,
               ret |-> IF walk.error # "" THEN <<>>
                       ELSE WriteNeighbors([oy \in 1..n |-> [ox \in 1..n |-> None]],
                                           walk.calls, 1, tile, radius)] :
          walk \in {_for_neighbor_of(g, adjacency_rule, same_autotile_object, tile, radius)}})

\* the test of one rule that lets a cell of code 3 pass without a neighbor
RuleMatches_code_3_ignored(rule, neighbors_bool_grid) ==
    \A y \in DOMAIN rule.rule_matrix : \A x \in DOMAIN rule.rule_matrix[y] :
        LET cell == rule.rule_matrix[y][x]
            neighbor_exists == neighbors_bool_grid[y][x]
        IN  cell \in {1, 2, 3} \/ ~(neighbor_exists /\ cell = 0)

\* the test of one rule in find_display: TRUE when no cell of the rule
\* sends find_display to the next rule
RuleMatches(rule, neighbors_bool_grid) ==
    \A y \in DOMAIN rule.rule_matrix : \A x \in DOMAIN rule.rule_matrix[y] :
        LET cell == rule.rule_matrix[y][x]
            neighbor_exists == neighbors_bool_grid[y][x]
        IN  cell \in {1, 2} \/ ~((neighbor_exists /\ cell = 0) \/ (~neighbor_exists /\ cell = 3))

\* find_display(rule_index) of AutotileTile._autotile_calculate: the scan
\* stops at len(self.rules), the tile's list, and takes the rule from
\* layer_rules, the list self.layer.autotile_rules[self.name]; an index past
\* the end of that list raises IndexError
RECURSIVE find_display(_, _, _, _)
find_display(rules, layer_rules, neighbors_bool_grid, rule_index) ==
    IF rule_index > Len(rules) THEN [display |-> <<0, 0>>, warning |-> 1, error |-> ""]
    ELSE IF rule_index > Len(layer_rules)
         THEN [display |-> <<0, 0>>, warning |-> 0, error |-> "IndexError"]
    ELSE IF RuleMatches(layer_rules[rule_index], neighbors_bool_grid)
         THEN [display |-> layer_rules[rule_index].display, warning |-> 0, error |-> ""]
         ELSE find_display(rules, layer_rules, neighbors_bool_grid, rule_index + 1)

\* TilemapLayer.autotile_rules as the layer is constructed with: a list of
\* rules per group name
RuleTable ==
    [default |-> <<AutotileRule(<< <<2, 2, 2>>, <<2, 1, 2>>, <<2, 2, 2>> >>, <<9, 9>>)>>,
     g |-> get_rule_group(<< <<2, 0, 2>>, <<2, 1, 2>>, <<2, 3, 2>> >>, <<1, 0>>, 4),
     h |-> <<AutotileRule(<< <<2, 2, 2>>, <<0, 1, 3>>, <<2, 2, 2>> >>, <<5, 0>>),
             AutotileRule(<< <<2, 2, 2>>, <<3, 1, 3>>, <<2, 2, 2>> >>, <<6, 0>>),
             AutotileRule(<< <<2, 2, 2>>, <<2, 1, 3>>, <<2, 2, 2>> >>, <<7, 0>>),
             AutotileRule(<< <<2, 2, 2>>, <<0, 1, 0>>, <<2, 2, 2>> >>, <<8, 0>>)>>]

\* self.autotile_rules[tile.name] after _handle_add_autotile_tile gave an
\* unknown name the default list
autotile_rules(name) ==
    IF name \in DOMAIN RuleTable THEN RuleTable[name] ELSE RuleTable["default"]

\* TilemapLayer.__init__ with RuleTable as autotile_rules: lists holds the
\* list objects, a list being known by its index, and table is the dict, from
\* group name to list
TilemapLayer_init ==
    [lists |-> <<RuleTable["default"], RuleTable["g"], RuleTable["h"]>>,
     table |-> [default |-> 1, g |-> 2, h |-> 3]]

\* the list a rules attribute refers to
RulesAt(rb, id) == IF id = 0 THEN <<>> ELSE rb.lists[id]

\* TilemapLayer.set_autotile_rules(name, rules): the dict entry of name is
\* the list object handed in, a list no other name refers to
set_autotile_rules(rb, name, rules) ==
    [lists |-> Append(rb.lists, rules),
     table |-> (name :> (Len(rb.lists) + 1)) @@ rb.table]

\* TilemapLayer.add_autotile_rule(name, *rules): each rule is appended to the
\* list object autotile_rules[name]; a name the dict does not know is a
\* KeyError of the first append
add_autotile_rule(rb, name, rules) ==
    IF rules = <<>> THEN [rulebook |-> rb, error |-> ""]
    ELSE IF name \notin DOMAIN rb.table THEN [rulebook |-> rb, error |-> "KeyError"]
    ELSE [rulebook |-> [rb EXCEPT !.lists[rb.table[name]] = @ \o rules], error |-> ""]

\* Tile.format(): the display set_variation_display chooses is the tile's,
\* in its cell too when the tile is stored, then tile_formatted is sent
Tile_format(m, l, tile, chosen_chance) ==
    Only({send([s EXCEPT !.grid[l] = IF get_element_at(@, tile.position) = tile
                                     THEN SetCell(@, tile.position, formatted)
                                     ELSE @],
               "tile_formatted", formatted, l)
          : s \in {m}, formatted \in {set_variation_display(tile, chosen_chance)}})

\* AutotileTile.format(): the variations are reset and the display becomes
\* the one find_display returns for the layer's neighbor grid, scanning up
\* to the length of the tile's rules the list the layer now holds for the
\* tile's name; no post-autotile callback is registered; then Tile.format()
\* runs, with no variation left to draw from. An IndexError of find_display
\* ends the call after the reset
AutotileTile_format(m, l, tile) ==
    Only({
        LET neighbors_bool_grid == get_neighbors_bool_grid(s.grid[l], "eight", FALSE, t, 1)
            reset == [s EXCEPT !.grid[l] = IF get_element_at(@, t.position) = t
                                           THEN SetCell(@, t.position, reset_variations(t))
                                           ELSE @]
        IN  Only({
                LET formatted == [reset_variations(t) EXCEPT !.display = found.display]
                IN  IF found.error # "" THEN [reset EXCEPT !.error = found.error]
                    ELSE Tile_format([s EXCEPT !.warnings = @ + found.warning,
                                               !.grid[l] = IF get_element_at(@, t.position) = t
                                                           THEN SetCell(@, t.position, formatted)
                                                           ELSE @],
                                     l, formatted, 0)
                : found \in {find_display(RulesAt(s.rulebook, t.rules),
                                           s.rulebook.lists[s.rulebook.table[t.name]],
                                           neighbors_bool_grid, 1)}})
        : s \in {m}, t \in {tile}})

\* tile.format(), dispatched on the tile's class; chosen_chance is the draw
\* Tile.format() makes when the tile has variations
format(m, l, tile, chosen_chance) ==
    Only({IF t.kind = "AutotileTile" THEN AutotileTile_format(s, l, t)
          ELSE Tile_format(s, l, t, chosen_chance) : s \in {m}, t \in {tile}})

\* the loop of format_autotile_tile_neighbors: format_tile on the neighbors
\* held at the given positions
RECURSIVE FormatNeighbors(_, _, _)
FormatNeighbors(m, l, positions) ==
    Only({IF ps = <<>> \/ s.error # "" THEN s
          ELSE FormatNeighbors(format(s, l, get_element_at(s.grid[l], Head(ps)), 0),
                               l, Tail(ps)) : s \in {m}, ps \in {positions}})

\* TilemapLayerFormatter.format_autotile_tile_neighbors(tile): the matrix of
\* get_neighbors_of(tile, radius=2) is built, then walked row by row, and
\* the entries that are AutotileTiles are formatted
format_autotile_tile_neighbors(m, l, tile) ==
    Only({
        LET rows == [i \in 1..25 |-> <<t.position[1] + ((i - 1) % 5) - 2,
                                       t.position[2] + ((i - 1) \div 5) - 2>>]
        IN  FormatNeighbors(s, l, SelectSeq(rows, LAMBDA p :
                /\ p # t.position
                /\ _get_neighbor_of_tile_at(s.grid[l], FALSE, t, p).kind = "AutotileTile"))
        : s \in {m}, t \in {tile}})

\* TilemapLayer.remove_tile(tile, apply_formatting): a locked tile is left
\* alone
remove_tile(m, l, tile, apply_formatting) ==
    IF tile.locked THEN m
    ELSE Only({IF tile.kind = "AutotileTile" /\ apply_formatting
               THEN format_autotile_tile_neighbors(m1, l, tile)
               ELSE m1 : m1 \in {remove_element(m, l, tile)}})

\* GridElement.remove / Tile.remove: dispatch on the element's class, on the
\* layer of its back-reference
GridElement_remove(m, element) ==
    IF element.kind \in {"Tile", "AutotileTile"}
    THEN remove_tile(m, element.layer, element, TRUE)
    ELSE remove_element(m, element.layer, element)

\* GridLayer._concurrent_elements_at: the occupants of position in the
\* concurrent layers, visited in the order the set is iterated
RECURSIVE _concurrent_elements_at(_, _, _)
_concurrent_elements_at(m, order, position) ==
    IF order = <<>> THEN <<>>
    ELSE LET element == get_element_at(m.grid[Head(order)], position)
             rest == _concurrent_elements_at(m, Tail(order), position)
         IN  IF element # None THEN <<element>> \o rest ELSE rest

\* the loop of add_element without the call of remove(): it only looks for a
\* locked element
EvictConcurrent_no_remove(m, elements) ==
    [m |-> m, blocked |-> \E i \in DOMAIN elements : elements[i].locked]

\* the loop of add_element over concurrent_elements_in_place: stops at the
\* first locked one, removes the others it met before
RECURSIVE EvictConcurrent(_, _)
EvictConcurrent(m, elements) ==
    IF elements = <<>> THEN [m |-> m, blocked |-> FALSE]
    ELSE IF Head(elements).locked THEN [m |-> m, blocked |-> TRUE]
    ELSE EvictConcurrent(GridElement_remove(m, Head(elements)), Tail(elements))

\* GridMap.for_grid_position: x outer, y inner, over the map's grid size
GridPositionSeq(size) ==
    [i \in 1..(size[1] * size[2]) |-> <<(i - 1) \div size[2], (i - 1) % size[2]>>]

\* GridLayer.get_namesakes(name) through for_all_elements
RECURSIVE NamesakesFrom(_, _, _)
NamesakesFrom(g, name, positions) ==
    IF positions = <<>> THEN <<>>
    ELSE LET element == get_element_at(g, Head(positions))
             rest == NamesakesFrom(g, name, Tail(positions))
         IN  IF element # None /\ element.name = name
             THEN <<element>> \o rest ELSE rest

get_namesakes(g, size, name) == NamesakesFrom(g, name, GridPositionSeq(size))

\* for namesake in namesakes: namesake.remove()
RECURSIVE RemoveAll(_, _)
RemoveAll(m, elements) ==
    IF elements = <<>> THEN m
    ELSE RemoveAll(GridElement_remove(m, Head(elements)), Tail(elements))

\* the end of add_element with the event sent before the cell is written
Install_event_first(m, l, element) ==
    [send(m, "element_created", element, l)
        EXCEPT !.grid[l] = SetCell(@, element.position, element)]

\* the end of add_element: the cell is written, then element_created is sent
Install(m, l, element) ==
    send([m EXCEPT !.grid[l] = SetCell(@, element.position, element)],
         "element_created", element, l)

\* GridLayer.add_element(element); size is the map's grid size and order the
\* iteration order of concurrent_layers
add_element(m, size, l, element, order) ==
    IF m.grid[l] = NoneGrid \/ ~LayerChecker_position_is_valid(m.grid[l], element.position)
    THEN [m |-> m, ret |-> "ValueError", element |-> element]
    ELSE
    LET same_layer_element_in_place == get_element_at(m.grid[l], element.position)
    IN
    IF same_layer_element_in_place # None /\ same_layer_element_in_place.locked
    THEN [m |-> m, ret |-> "False", element |-> element]
    ELSE
    Only({
        IF r.blocked THEN [m |-> r.m, ret |-> "False", element |-> element]
        ELSE
        LET m2 == IF element.unique
                  THEN RemoveAll(r.m, get_namesakes(r.m.grid[l], size, element.name))
                  ELSE r.m
            added == [element EXCEPT !.layer = l]
            m3 == Install(m2, l, added)
        IN  [m |-> m3, ret |-> "True", element |-> added]
        : r \in {Only({EvictConcurrent(m1, _concurrent_elements_at(m1, order, element.position))
                       : m1 \in {IF same_layer_element_in_place # None
                                 THEN _remove_element(m, l, element)
                                 ELSE m}})}})

\* TilemapLayer._handle_add_autotile_tile(tile, apply_formatting): a name
\* the dict does not know gets the list object of "default", the tile's
\* rules attribute refers to the list of its name, and the neighbors are
\* formatted
_handle_add_autotile_tile(m, l, tile, apply_formatting) ==
    Only({
        Only({IF apply_formatting THEN format_autotile_tile_neighbors(m1, l, tile) ELSE m1
              : m1 \in {[m EXCEPT !.rulebook.table = table,
                                  !.grid[l] = SetCell(@, tile.position,
                                                  [tile EXCEPT !.rules = table[tile.name]])]}})
        : table \in {IF tile.name \in DOMAIN m.rulebook.table THEN m.rulebook.table
                     ELSE (tile.name :> m.rulebook.table["default"]) @@ m.rulebook.table}})

\* TilemapLayer.add_tile(tile, apply_formatting); chosen_chance is the draw of
\* tile.format(); an exception of the formatting ends the call
add_tile(m, size, l, tile, order, apply_formatting, chosen_chance) ==
    Only({
        IF r.ret # "True" THEN r
        ELSE Only({
                 Only({[m |-> m2, ret |-> IF m2.error # "" THEN m2.error ELSE "True",
                        element |-> get_element_at(m2.grid[l], tile.position)]
                       : m2 \in {IF apply_formatting /\ m1.error = ""
                                  THEN format(m1, l, get_element_at(m1.grid[l], tile.position),
                                              chosen_chance)
                                  ELSE m1}})
                 : m1 \in {IF tile.kind = "AutotileTile"
                           THEN _handle_add_autotile_tile(r.m, l, r.element, apply_formatting)
                           ELSE r.m}})
        : r \in {add_element(m, size, l, tile, order)}})

\* the cells that hold an element, as <<layer, <<y, x>>>>
Stored(g) ==
    UNION {{<<l, p>> : p \in {q \in DOMAIN g[l].cells : g[l].cells[q] # None}} : l \in Layers}

\* ------------------------------------------------------------ border tracer
\* TilemapBorderTracer(tilemap_layer): no node, no line. nodes maps a corner
\* position to its Node; line holds the Line objects made so far, a Line
\* being known by its index; lines is the set of the stored ones; error names
\* the exception that ended the running call
TilemapBorderTracer == [nodes |-> <<>>, lines |-> {}, line |-> <<>>, error |-> ""]

\* order_pos(positions)
order_pos(positions) ==
    << <<Min2(positions[1][1], positions[2][1]), Min2(positions[1][2], positions[2][2])>>,
       <<Max2(positions[1][1], positions[2][1]), Max2(positions[1][2], positions[2][2])>> >>

\* Line(positions, orientation)
Line(positions, orientation) ==
    [start |-> order_pos(positions)[1], end |-> order_pos(positions)[2],
     orientation |-> orientation]

\* Line.length, squared: lengths are only compared with each other and with 0
Line_length(line) ==
    (line.end[1] - line.start[1]) * (line.end[1] - line.start[1])
    + (line.end[2] - line.start[2]) * (line.end[2] - line.start[2])

\* Node()
Node == [horizontal |-> 0, vertical |-> 0]

\* the positions range(start[0], end[0] + 1) x range(start[1], end[1] + 1)
LinePositions(line) == (line.start[1]..line.end[1]) \X (line.start[2]..line.end[2])

\* self.nodes[pos] = node
SetNode(nodes, pos, node) ==
    [q \in DOMAIN nodes \cup {pos} |-> IF q = pos THEN node ELSE nodes[q]]

\* a tracer whose call ended with an exception
Raise(t, error) == [t EXCEPT !.error = error]

\* Node.add_line that leaves the node as it was
Node_add_line_forgotten(t, pos, id) == t

\* self.nodes[pos].add_line(line), the line being known by its index id
Node_add_line(t, pos, id) ==
    [t EXCEPT !.nodes[pos][t.line[id].orientation] = id]

\* the nodes on the positions of a line take value as their line of the
\* line's orientation; a position without node is a KeyError
SetLineOfNodes(t, id, value) ==
    IF \E q \in LinePositions(t.line[id]) : q \notin DOMAIN t.nodes
    THEN Raise(t, "KeyError")
    ELSE [t EXCEPT !.nodes = [q \in DOMAIN @ |->
             IF q \in LinePositions(t.line[id])
             THEN [@[q] EXCEPT ![t.line[id].orientation] = value]
             ELSE @[q]]]

\* _remove_line that clears the nodes and leaves the line in the set
_remove_line_keeps_line(t, id) ==
    IF t.error # "" THEN t ELSE SetLineOfNodes(t, id, 0)

\* TilemapBorderTracer._remove_line(line)
_remove_line(t, id) ==
    IF t.error # "" THEN t
    ELSE Only({IF t1.error # "" THEN t1
               ELSE IF id \notin t1.lines THEN Raise(t1, "KeyError")
               ELSE [t1 EXCEPT !.lines = @ \ {id}]
               : t1 \in {SetLineOfNodes(t, id, 0)}})

\* TilemapBorderTracer._add_line(line)
_add_line(t, id) ==
    IF t.error # "" THEN t
    ELSE IF Line_length(t.line[id]) = 0 THEN t
    ELSE Only({IF t1.error # "" THEN t1 ELSE [t1 EXCEPT !.lines = @ \cup {id}]
               : t1 \in {SetLineOfNodes(t, id, id)}})

\* _extend_line that takes the minimum for the end too
_extend_line_end_by_min(t, id, pos) ==
    IF t.error # "" THEN t
    ELSE [t EXCEPT !.line[id].start = <<Min2(pos[1], @[1]), Min2(pos[2], @[2])>>,
                   !.line[id].end = <<Min2(pos[1], @[1]), Min2(pos[2], @[2])>>]

\* TilemapBorderTracer._extend_line(line, pos)
_extend_line(t, id, pos) ==
    IF t.error # "" THEN t
    ELSE IF \/ t.line[id].orientation = "vertical" /\ pos[1] # t.line[id].start[1]
            \/ t.line[id].orientation = "horizontal" /\ pos[2] # t.line[id].start[2]
         THEN Raise(t, "ValueError")
    ELSE [t EXCEPT !.line[id].start = <<Min2(pos[1], @[1]), Min2(pos[2], @[2])>>,
                   !.line[id].end = <<Max2(pos[1], @[1]), Max2(pos[2], @[2])>>]

\* TilemapBorderTracer._merge_lines(line_1, line_2); max() keeps the first
\* of the lines of largest length
_merge_lines(t, id_1, id_2) ==
    IF t.error # "" THEN t
    ELSE
    LET line_1 == t.line[id_1]
        line_2 == t.line[id_2]
        largest_line == IF Line_length(line_1) >= Line_length(line_2) THEN id_1 ELSE id_2
        other == IF largest_line = id_1 THEN id_2 ELSE id_1
        spanned == [t EXCEPT
            !.line[largest_line].start = <<Min2(line_1.start[1], line_2.start[1]),
                                           Min2(line_1.start[2], line_2.start[2])>>,
            !.line[largest_line].end = <<Max2(line_1.end[1], line_2.end[1]),
                                         Max2(line_1.end[2], line_2.end[2])>>]
    IN  Only({_add_line(t1, largest_line) : t1 \in {_remove_line(spanned, other)}})

\* line = Line(...): the new Line object gets the next index
NewLine(t, positions, orientation) ==
    [t EXCEPT !.line = Append(@, Line(positions, orientation))]

\* TilemapBorderTracer._split_line(positions, orientation)
_split_line(t, positions, orientation) ==
    IF t.error # "" THEN t
    ELSE
    LET pos == order_pos(positions)
    IN  IF pos[1] \notin DOMAIN t.nodes \/ pos[2] \notin DOMAIN t.nodes
        THEN Raise(t, "ValueError")
        ELSE
        LET line_1 == t.nodes[pos[1]][orientation]
            line_2 == t.nodes[pos[2]][orientation]
        IN  IF line_1 = 0 \/ line_2 = 0 THEN Raise(t, "ValueError")
            ELSE IF line_1 # line_2 THEN t
            ELSE Only({
                    Only({_add_line(_add_line(t2, Len(t2.line) - 1), Len(t2.line))
                          : t2 \in {NewLine(NewLine(t1, <<t.line[line_1].start, pos[1]>>,
                                                    orientation),
                                            <<pos[2], t.line[line_1].end>>, orientation)}})
                    : t1 \in {_remove_line(t, line_1)}})

\* node.lines[orientation] if node else None, for node = self.nodes.get(pos)
LineAt(t, pos, orientation) ==
    IF pos \in DOMAIN t.nodes THEN t.nodes[pos][orientation] ELSE 0

\* TilemapBorderTracer._process_border(positions, orientation)
_process_border(t, positions, orientation) ==
    IF t.error # "" THEN t
    ELSE
    LET pos == order_pos(positions)
        line_1 == LineAt(t, pos[1], orientation)
        line_2 == LineAt(t, pos[2], orientation)
        with_1 == IF pos[1] \in DOMAIN t.nodes THEN t.nodes ELSE SetNode(t.nodes, pos[1], Node)
        with_2 == IF pos[2] \in DOMAIN with_1 THEN with_1 ELSE SetNode(with_1, pos[2], Node)
    IN  Only({
            IF line_1 # 0 /\ line_2 # 0
            THEN IF line_1 # line_2 THEN _merge_lines(t1, line_1, line_2) ELSE t1
            ELSE IF line_1 # 0
            THEN _extend_line(Node_add_line(t1, pos[2], line_1), line_1, pos[2])
            ELSE IF line_2 # 0
            THEN _extend_line(Node_add_line(t1, pos[1], line_2), line_2, pos[1])
            ELSE Only({[Node_add_line(Node_add_line(t2, pos[1], Len(t2.line)),
                                      pos[2], Len(t2.line))
                           EXCEPT !.lines = @ \cup {Len(t2.line)}]
                       : t2 \in {NewLine(t1, pos, orientation)}})
            : t1 \in {[t EXCEPT !.nodes = with_2]}})

\* handle_neighbor(pos, contact_line, orientation) of _handle_create_tile for
\* the tile at <<x, y>>
handle_neighbor(t, neighbors, x, y, pos, contact_line, orientation) ==
    IF t.error # "" THEN t
    ELSE IF neighbors[pos[2] + 1 - y + 1][pos[1] + 1 - x + 1]
         THEN _split_line(t, contact_line, orientation)
         ELSE _process_border(t, contact_line, orientation)

\* TilemapBorderTracer._handle_create_tile(sender, tile) on the layer's grid
\* g; the tracer's processor is in same_autotile_object mode with adjacency
\* "four"
_handle_create_tile(t, g, tile) ==
    LET neighbors == get_neighbors_bool_grid(g, "four", TRUE, tile, 1)
        x == tile.position[1]
        y == tile.position[2]
    IN  IF neighbors = <<"AttributeError">> THEN Raise(t, "AttributeError")
        ELSE
        Only({Only({Only({
            handle_neighbor(t3, neighbors, x, y, <<x, y + 1>>,
                            << <<x, y + 1>>, <<x + 1, y + 1>> >>, "horizontal")
            : t3 \in {handle_neighbor(t2, neighbors, x, y, <<x - 1, y>>,
                                      << <<x, y>>, <<x, y + 1>> >>, "vertical")}})
            : t2 \in {handle_neighbor(t1, neighbors, x, y, <<x, y - 1>>,
                                      << <<x, y>>, <<x + 1, y>> >>, "horizontal")}})
            : t1 \in {handle_neighbor(t, neighbors, x, y, <<x + 1, y>>,
                                      << <<x + 1, y>>, <<x + 1, y + 1>> >>, "vertical")}})

\* Signal.send(**kwargs) calls receiver(sender, **kwargs): a keyword that is
\* no parameter of the receiver is a TypeError
receiver_call(keyword, parameter) == IF keyword = parameter THEN "" ELSE "TypeError"

\* ---------------------------------------------------------------- resizing
\* np.pad(grid, ((top, bottom), (left, right)), mode="constant", constant_values=0)
np_pad(g, top, bottom, left, right) ==
    [rows |-> g.rows + top + bottom, cols |-> g.cols + left + right,
     cells |-> [p \in (0..(g.rows + top + bottom - 1)) \X (0..(g.cols + left + right - 1)) |->
                  IF /\ p[1] - top \in 0..(g.rows - 1)
                     /\ p[2] - left \in 0..(g.cols - 1)
                  THEN g.cells[<<p[1] - top, p[2] - left>>]
                  ELSE PadZero]]

\* the index Python gives the bound size of the slices [size:] and [:size] of
\* a length, size >= 0
SliceStart(length, size) == Min2(size, length)

\* the index Python gives the bound -size of the slices [-size:] and [:-size]
\* of a length, size >= 0: -0 is 0, the start of the array
SliceStop(length, size) == IF size = 0 THEN 0 ELSE Max2(length - size, 0)

\* the slice assignment of _create_new_grid: new_grid[...] = fill
FillStrip(g, direction, size, fill) ==
    [g EXCEPT !.cells = [p \in DOMAIN g.cells |->
        IF \/ direction = "left" /\ p[2] < SliceStart(g.cols, size)
           \/ direction = "right" /\ p[2] >= SliceStop(g.cols, size)
           \/ direction = "top" /\ p[1] < SliceStart(g.rows, size)
           \/ direction = "bottom" /\ p[1] >= SliceStop(g.rows, size)
        THEN fill ELSE g.cells[p]]]

expand_grid_towards(g, direction, size) ==
    IF direction = "left" THEN FillStrip(np_pad(g, 0, 0, size, 0), direction, size, None)
    ELSE IF direction = "right" THEN FillStrip(np_pad(g, 0, 0, 0, size), direction, size, None)
    ELSE IF direction = "top" THEN FillStrip(np_pad(g, size, 0, 0, 0), direction, size, None)
    ELSE FillStrip(np_pad(g, 0, size, 0, 0), direction, size, None)

\* grid[r0:r1, c0:c1] for 0 <= r0 <= r1 <= rows and 0 <= c0 <= c1 <= cols
Slice(g, r0, r1, c0, c1) ==
    [rows |-> r1 - r0, cols |-> c1 - c0,
     cells |-> [p \in (0..(r1 - r0 - 1)) \X (0..(c1 - c0 - 1)) |->
                  g.cells[<<p[1] + r0, p[2] + c0>>]]]

reduce_grid_towards(g, direction, size) ==
    IF direction = "left" THEN Slice(g, 0, g.rows, SliceStart(g.cols, size), g.cols)
    ELSE IF direction = "right" THEN Slice(g, 0, g.rows, 0, SliceStop(g.cols, size))
    ELSE IF direction = "top" THEN Slice(g, SliceStart(g.rows, size), g.rows, 0, g.cols)
    ELSE Slice(g, 0, SliceStop(g.rows, size), 0, g.cols)

\* a shift that leaves the positions as they are
shift_elements_towards_nowhere(g, direction, size) == g

\* GridLayer.shift_elements_towards on the layer's grid g: every cell is
\* visited once and the element it holds gets position += vector * size
shift_elements_towards(g, direction, size) ==
    [g EXCEPT !.cells = [p \in DOMAIN g.cells |->
        IF g.cells[p] = None THEN None
        ELSE [g.cells[p] EXCEPT !.position =
                << @[1] + direction_vectors[direction][1] * size,
                   @[2] + direction_vectors[direction][2] * size >>]]]

\* GridLayer.expand_towards of layer l on machine state m
GridLayer_expand_towards(m, l, direction, size) ==
    LET g == expand_grid_towards(m.grid[l], direction, size)
    IN  [m EXCEPT !.grid[l] =
            IF direction = "top" \/ direction = "left"
            THEN shift_elements_towards(g, opposite_directions[direction], size)
            ELSE g]

\* GridLayer.reduce_towards of layer l on machine state m
GridLayer_reduce_towards(m, l, direction, size) ==
    LET g == reduce_grid_towards(m.grid[l], direction, size)
    IN  [m EXCEPT !.grid[l] =
            IF direction = "top" \/ direction = "left"
            THEN shift_elements_towards(g, direction, size)
            ELSE g]

RECURSIVE ExpandLayers(_, _, _, _)
ExpandLayers(m, ls, direction, size) ==
    IF ls = <<>> THEN m
    ELSE ExpandLayers(GridLayer_expand_towards(m, Head(ls), direction, size),
                      Tail(ls), direction, size)

RECURSIVE ReduceLayers(_, _, _, _)
ReduceLayers(m, ls, direction, size) ==
    IF ls = <<>> THEN m
    ELSE ReduceLayers(GridLayer_reduce_towards(m, Head(ls), direction, size),
                      Tail(ls), direction, size)

_get_shift(direction, size) ==
    << Abs(direction_vectors[direction][1] * size),
       Abs(direction_vectors[direction][2] * size) >>

\* _can_expand_towards that compares the width only
_can_expand_towards_width_only(new_size) ==
    new_size[1] <= max_grid_size[1]

_can_expand_towards(new_size) ==
    new_size[1] <= max_grid_size[1] /\ new_size[2] <= max_grid_size[2]

_can_reduce_towards(new_size) ==
    new_size[1] >= min_grid_size[1] /\ new_size[2] >= min_grid_size[2]

\* GridMap.get_edge_positions(edge, size, retreat) for a map of grid size gs
get_edge_positions(gs, edge, size, retreat) ==
    UNION { ( IF edge \in {"left", "all"}
              THEN {<<retreat + i, y>> : y \in 0..(gs[2] - 1)} ELSE {} )
            \cup
            ( IF edge \in {"right", "all"}
              THEN {<<gs[1] - 1 - (retreat + i), y>> : y \in 0..(gs[2] - 1)} ELSE {} )
            \cup
            ( IF edge \in {"bottom", "all"}
              THEN {<<x, gs[2] - 1 - (retreat + i)>> : x \in 0..(gs[1] - 1)} ELSE {} )
            \cup
            ( IF edge \in {"top", "all"}
              THEN {<<x, retreat + i>> : x \in 0..(gs[1] - 1)} ELSE {} )
          : i \in 0..(size - 1) }

\* A map state s: [grid_size, layers, grid].  The result of a map operation:
\* the new grid_size and grid, the events sent, and the returned value (ret
\* "None", or "positions" with the list in positions).
MapResult(gs, g, evs, ret, positions) ==
    [grid_size |-> gs, grid |-> g, events |-> evs, ret |-> ret, positions |-> positions]

\* GridMap.expand_towards(direction, size)
GridMap_expand_towards(s, direction, size) ==
    LET shift == _get_shift(direction, size)
        new_size == <<s.grid_size[1] + shift[1], s.grid_size[2] + shift[2]>>
    IN
    IF ~_can_expand_towards(new_size)
    THEN MapResult(s.grid_size, s.grid, <<>>, "None", {})
    ELSE
    LET m == ExpandLayers([grid |-> s.grid, events |-> <<>>, warnings |-> 0,
                           rulebook |-> rulebook, error |-> ""], s.layers, direction, size)
        gs == clamp_size(new_size)
        new_positions == get_edge_positions(gs, direction, size, 0)
    IN  MapResult(gs, m.grid, Append(m.events, Event("expanded", None, "", m.grid)),
                  "positions", new_positions)

\* GridMap.reduce_towards(direction, size)
GridMap_reduce_towards(s, direction, size) ==
    LET shift == _get_shift(direction, size)
        new_size == <<s.grid_size[1] - shift[1], s.grid_size[2] - shift[2]>>
    IN
    IF ~_can_reduce_towards(new_size)
    THEN MapResult(s.grid_size, s.grid, <<>>, "None", {})
    ELSE
    LET removed_positions == get_edge_positions(s.grid_size, direction, size, 0)
        m == ReduceLayers([grid |-> s.grid, events |-> <<>>, warnings |-> 0,
                           rulebook |-> rulebook, error |-> ""], s.layers, direction, size)
        gs == clamp_size(new_size)
    IN  MapResult(gs, m.grid, Append(m.events, Event("reducted", None, "", m.grid)),
                  "positions", removed_positions)

\* the current map state
Cur == [grid_size |-> grid_size, layers |-> layers, grid |-> grid]

\* ---------------------------------------------------------------- Init
\* GridMap.__init__(tile_size, grid_size, min_grid_size, max_grid_size)
\* a layer as constructed: no cached property has been read; a cached
\* value is held as <<value>>, the layer None as ""
GridLayer_init == [index |-> <<>>, layer_above |-> <<>>, layer_below |-> <<>>]

\* list.index(x), counted from 0
IndexIn(seq, x) == (CHOOSE i \in DOMAIN seq : seq[i] = x /\ \A j \in 1..(i - 1) : seq[j] # x) - 1

\* the cached property index of layer l in a map whose layers are ls:
\* computed at the first read, the held value afterwards
index(c, ls, l) ==
    IF c[l].index # <<>> THEN [cached |-> c, ret |-> c[l].index[1]]
    ELSE Only({[cached |-> [c EXCEPT ![l].index = <<v>>], ret |-> v] : v \in {IndexIn(ls, l)}})

\* the cached property layer_above of layer l
layer_above(c, ls, l) ==
    IF c[l].layer_above # <<>> THEN [cached |-> c, ret |-> c[l].layer_above[1]]
    ELSE Only({
             Only({[cached |-> [i.cached EXCEPT ![l].layer_above = <<v>>], ret |-> v]
                   : v \in {IF i.ret + 1 < Len(ls) THEN ls[i.ret + 2] ELSE ""}})
             : i \in {index(c, ls, l)}})

\* the cached property layer_below of layer l
layer_below(c, ls, l) ==
    IF c[l].layer_below # <<>> THEN [cached |-> c, ret |-> c[l].layer_below[1]]
    ELSE Only({
             Only({[cached |-> [i.cached EXCEPT ![l].layer_below = <<v>>], ret |-> v]
                   : v \in {IF i.ret - 1 >= 0 THEN ls[i.ret] ELSE ""}})
             : i \in {index(c, ls, l)}})

GridMap_init(size, min, max) ==
    /\ min_grid_size = min
    /\ max_grid_size = max
    /\ grid_size = clamp_size(size)
    /\ concurrent_layers = [l \in Layers |-> {}]
    /\ events = <<>>
    /\ last = NoCall
    /\ tracer = TilemapBorderTracer
    /\ rulebook = TilemapLayer_init
    /\ cached = [l \in Layers |-> GridLayer_init]

\* the map after map.add_layer(A); map.add_layer(B)
WithLayers ==
    /\ layers = <<"A", "B">>
    /\ grid = [l \in Layers |-> initialize_grid(NoneGrid, grid_size)]

\* a map of fixed size with both layers added
Init ==
    /\ \E size \in (0..(LSize[1] + 1)) \X (0..(LSize[2] + 1)) :
          GridMap_init(size, LSize, LSize)
    /\ WithLayers

\* a map that can grow and shrink, with both layers added
InitMap ==
    /\ \E size \in (0..(MaxW + 1)) \X (0..(MaxH + 1)) :
          GridMap_init(size, <<MinW, MinH>>, <<MaxW, MaxH>>)
    /\ WithLayers

\* ---------------------------------------------------------------- actions
\* list.insert(position, layer); position = Len(layers) is the "end" default
InsertAt(seq, at, x) == SubSeq(seq, 1, at) \o <<x>> \o SubSeq(seq, at + 1, Len(seq))

\* all orders in which a set of layers can be iterated
Orders(S) == {o \in [1..Cardinality(S) -> S] : Range(o) = S}

\* GridMap.add_layer(layer, position), for a layer not yet in a map
AddLayer(l, at) ==
    /\ l \notin Range(layers)
    /\ grid' = [grid EXCEPT ![l] = initialize_grid(@, grid_size)]
    /\ layers' = InsertAt(layers, at, l)
    /\ events' = <<>>
    /\ last' = [NoCall EXCEPT !.op = "add_layer", !.layer = l, !.ret = "None"]
    /\ UNCHANGED <<cached, rulebook, tracer, min_grid_size, max_grid_size, grid_size, concurrent_layers>>

\* GridMap.add_layer_concurrence(*layer_names); get_layer raises for a name
\* that is not registered, before any layer is changed
AddLayerConcurrence(names) ==
    /\ IF names \subseteq Range(layers)
       THEN /\ concurrent_layers' =
                  [l \in Layers |-> IF l \in names
                                    THEN concurrent_layers[l] \cup (names \ {l})
                                    ELSE concurrent_layers[l]]
            /\ last' = [NoCall EXCEPT !.op = "add_layer_concurrence", !.ret = "None"]
       ELSE /\ UNCHANGED concurrent_layers
            /\ last' = [NoCall EXCEPT !.op = "add_layer_concurrence", !.ret = "ValueError"]
    /\ events' = <<>>
    /\ UNCHANGED <<cached, rulebook, tracer, min_grid_size, max_grid_size, grid_size, layers, grid>>

\* layer.add_element(element) (TilemapLayer.add_tile for the tilemap layer)
\* with a newly constructed element
AddElement(l, position, name, unique, locked, order) ==
    /\ \E r \in {add_element([grid |-> grid, events |-> <<>>, warnings |-> 0,
                              rulebook |-> rulebook, error |-> ""], grid_size, l,
                               Element(position, name, unique, locked, "", ElementKind[l]),
                               order)} :
           /\ Cardinality(Stored(r.m.grid)) <= MaxElems
           /\ grid' = r.m.grid
           /\ events' = r.m.events
           /\ last' = [NoCall EXCEPT !.op = "add_element", !.layer = l,
                                     !.position = position,
                                     !.element = IF r.ret \in {"True", "ValueError"}
                                                 THEN r.element ELSE None,
                                     !.ret = r.ret]
    /\ UNCHANGED <<cached, rulebook, tracer, min_grid_size, max_grid_size, grid_size, layers,
                   concurrent_layers>>

\* GridLayer.remove_element_at(position)
RemoveElementAt(l, position) ==
    /\ IF grid[l] = NoneGrid
       THEN /\ UNCHANGED grid
            /\ events' = <<>>
            /\ last' = [NoCall EXCEPT !.op = "remove_element_at", !.layer = l,
                                      !.position = position, !.ret = "ValueError"]
       ELSE LET element == get_element_at(grid[l], position)
                m == [grid |-> grid, events |-> <<>>, warnings |-> 0,
                      rulebook |-> rulebook, error |-> ""]
                m1 == IF element = None THEN m ELSE remove_element(m, l, element)
            IN  /\ grid' = m1.grid
                /\ events' = m1.events
                /\ last' = [NoCall EXCEPT !.op = "remove_element_at", !.layer = l,
                                          !.position = position, !.element = element,
                                          !.ret = IF element = None THEN "None" ELSE "element"]
    /\ UNCHANGED <<cached, rulebook, tracer, min_grid_size, max_grid_size, grid_size, layers,
                   concurrent_layers>>

\* TilemapLayer.remove_tile_at(position, apply_formatting)
RemoveTileAt(l, position, apply_formatting) ==
    /\ LayerKind[l] = "TilemapLayer"
    /\ IF grid[l] = NoneGrid
       THEN /\ UNCHANGED grid
            /\ events' = <<>>
            /\ last' = [NoCall EXCEPT !.op = "remove_tile_at", !.layer = l,
                                      !.position = position, !.ret = "ValueError"]
       ELSE LET tile == get_element_at(grid[l], position)
                m == [grid |-> grid, events |-> <<>>, warnings |-> 0,
                      rulebook |-> rulebook, error |-> ""]
                m1 == IF tile = None THEN m ELSE remove_tile(m, l, tile, apply_formatting)
            IN  /\ grid' = m1.grid
                /\ events' = m1.events
                /\ last' = [NoCall EXCEPT !.op = "remove_tile_at", !.layer = l,
                                          !.position = position, !.element = tile,
                                          !.apply_formatting = apply_formatting,
                                          !.warnings = m1.warnings,
                                          !.ret = IF tile = None \/ tile.locked
                                                  THEN "None" ELSE "element"]
    /\ UNCHANGED <<cached, rulebook, tracer, min_grid_size, max_grid_size, grid_size, layers,
                   concurrent_layers>>

\* GridMap.expand_towards(direction, size); before keeps the map as it was
\* when the call succeeds
ExpandTowards(direction, size) ==
    /\ LET r == GridMap_expand_towards(Cur, direction, size)
       IN  /\ grid_size' = r.grid_size
           /\ grid' = r.grid
           /\ events' = r.events
           /\ last' = [NoCall EXCEPT !.op = "expand_towards", !.direction = direction,
                                     !.size = size, !.ret = r.ret,
                                     !.positions = r.positions,
                                     !.before = IF r.ret = "positions"
                                                THEN [grid_size |-> grid_size, grid |-> grid]
                                                ELSE @]
    /\ UNCHANGED <<cached, rulebook, tracer, min_grid_size, max_grid_size, layers, concurrent_layers>>

\* GridMap.reduce_towards(direction, size); undo records that the call
\* directly follows a successful expand_towards with the same arguments
ReduceTowards(direction, size) ==
    /\ LET r == GridMap_reduce_towards(Cur, direction, size)
       IN  /\ grid_size' = r.grid_size
           /\ grid' = r.grid
           /\ events' = r.events
           /\ last' = [NoCall EXCEPT !.op = "reduce_towards", !.direction = direction,
                                     !.size = size, !.ret = r.ret,
                                     !.positions = r.positions,
                                     !.undo = /\ last.op = "expand_towards"
                                              /\ last.ret = "positions"
                                              /\ last.direction = direction
                                              /\ last.size = size
                                              /\ r.ret = "positions"]
    /\ UNCHANGED <<cached, rulebook, tracer, min_grid_size, max_grid_size, layers, concurrent_layers>>

\* a plain element: the attributes add_element looks at are all off
AddPlain(l, position) ==
    /\ AddElement(l, position, "wall", FALSE, FALSE, <<>>)
    /\ Cardinality(Stored(grid')) <= MaxMapElems

\* the layered storage on a map of fixed size
Next ==
    \/ \E names \in {S \in SUBSET Layers : Cardinality(S) >= 2} : AddLayerConcurrence(names)
    \/ \E l \in Layers, position \in Positions, a \in ElementInputs :
          \E order \in Orders(concurrent_layers[l]) :
              AddElement(l, position, a.name, a.unique, a.locked, order)
    \/ \E l \in Layers, position \in OutOfBounds :
          AddElement(l, position, "wall", FALSE, FALSE, <<>>)
    \/ \E l \in Layers, position \in Positions : RemoveElementAt(l, position)
    \/ \E l \in Layers, position \in Positions : RemoveTileAt(l, position, FALSE)

Spec == Init /\ [][Next]_vars

\* resizing a map that holds plain elements
NextMap ==
    \/ \E l \in Layers, position \in MapPositions : AddPlain(l, position)
    \/ \E l \in Layers, position \in MapPositions : RemoveElementAt(l, position)
    \/ \E direction \in Directions, size \in 0..MaxN : ExpandTowards(direction, size)
    \/ \E direction \in Directions, size \in 0..MaxN : ReduceTowards(direction, size)

SpecMap == InitMap /\ [][NextMap]_vars


\* ------------------------------------------------------------ the tile map
\* a map of one row with the tilemap layer B alone
TSize == <<TW, 1>>
TilePositions == (0..(TSize[1] - 1)) \X (0..(TSize[2] - 1))

\* the tiles handed to add_tile
TileInputs(position) ==
    {AutotileTile(position, "g"), AutotileTile(position, "h"), Tile(position, <<2, 2>>, "")}

InitTile ==
    /\ GridMap_init(TSize, TSize, TSize)
    /\ layers = <<"B">>
    /\ grid = [l \in Layers |-> IF l = "B" THEN initialize_grid(NoneGrid, grid_size)
                                           ELSE NoneGrid]

\* TilemapLayer.add_tile(tile, apply_formatting)
AddTile(l, tile, apply_formatting) ==
    /\ \E chosen_chance \in Draws(tile) :
       \E r \in {add_tile([grid |-> grid, events |-> <<>>, warnings |-> 0,
                             rulebook |-> rulebook, error |-> ""],
                            grid_size, l, tile, <<>>, apply_formatting, chosen_chance)} :
           /\ Cardinality(Stored(r.m.grid)) <= MaxTiles
           /\ grid' = r.m.grid
           /\ events' = r.m.events
           /\ last' = [NoCall EXCEPT !.op = "add_tile", !.layer = l,
                                     !.position = tile.position,
                                     !.element = IF r.ret = "True" THEN r.element ELSE None,
                                     !.apply_formatting = apply_formatting,
                                     !.warnings = r.m.warnings,
                                     !.ret = r.ret]
           /\ rulebook' = r.m.rulebook
    /\ UNCHANGED <<cached, tracer, min_grid_size, max_grid_size, grid_size, layers,
                   concurrent_layers>>

\* a neighbor processor of layer l is asked about position, for the tile
\* stored at center
GetNeighborOfTileAt(l, center, position, same_autotile_object) ==
    /\ get_element_at(grid[l], center) # None
    /\ position # center
    /\ last' = [NoCall EXCEPT !.op = "_get_neighbor_of_tile_at", !.layer = l,
                              !.position = position,
                              !.element = get_element_at(grid[l], center),
                              !.same_autotile_object = same_autotile_object,
                              !.ret = _get_neighbor_of_tile_at(grid[l], same_autotile_object,
                                          get_element_at(grid[l], center), position).kind]
    /\ events' = <<>>
    /\ UNCHANGED <<cached, rulebook, tracer, min_grid_size, max_grid_size, grid_size, layers, grid,
                   concurrent_layers>>

NextTile ==
    \/ \E position \in TilePositions, apply_formatting \in BOOLEAN :
          \E tile \in TileInputs(position) : AddTile("B", tile, apply_formatting)
    \/ \E position \in TilePositions, apply_formatting \in BOOLEAN :
          RemoveTileAt("B", position, apply_formatting)

SpecTile == InitTile /\ [][NextTile]_vars

\* the tile map with tiles added unformatted and a neighbor processor with
\* adjacency "four" asked about the tiles' neighbors
NextNeighbor ==
    \/ \E position \in TilePositions : \E tile \in TileInputs(position) :
          AddTile("B", tile, FALSE)
    \/ \E center \in TilePositions, same_autotile_object \in BOOLEAN :
          \E i \in 1..4 :
              GetNeighborOfTileAt("B", center, _generate_positions("four", center, 1)[i],
                                  same_autotile_object)

SpecNeighbor == InitTile /\ [][NextNeighbor]_vars

\* ------------------------------------------------------ formatting a tile
\* the displays and chances handed to add_variation
VariationDisplays == {<<3, 3>>, <<4, 4>>}
Chances == 1..MaxChance

\* the tiles handed to add_tile, unformatted, before format() is called on them
FormatInputs(position) == {AutotileTile(position, "g"), Tile(position, <<2, 2>>, "")}

\* the sum of variations_chance_sum over the tiles of layer l
ChanceSumOf(l) ==
    LET cells == grid[l].cells
        RECURSIVE Sum(_)
        Sum(S) == IF S = {} THEN 0
                  ELSE LET q == CHOOSE q \in S : TRUE
                       IN  cells[q].variations_chance_sum + Sum(S \ {q})
    IN  Sum({q \in DOMAIN cells : cells[q] # None})

\* what format() returns: whether the display is another one than before
\* the call, wrongly taken against the display a tile is constructed with
tile_changed_from_default(previous_display, tile) == tile.display # <<0, 0>>

\* what format() returns: whether the display is another one than before
\* the call
tile_changed(previous_display, tile) == tile.display # previous_display

\* tile.add_variation(display, chance) on the tile stored at position
AddVariation(l, position, display, chance) ==
    /\ get_element_at(grid[l], position) # None
    /\ ChanceSumOf(l) + chance <= MaxChanceSum
    /\ \E tile \in {add_variation(get_element_at(grid[l], position), display, chance)} :
           /\ grid' = [grid EXCEPT ![l] = SetCell(@, position, tile)]
           /\ last' = [NoCall EXCEPT !.op = "add_variation", !.layer = l,
                                     !.position = position, !.element = tile]
    /\ events' = <<>>
    /\ UNCHANGED <<cached, rulebook, tracer, min_grid_size, max_grid_size, grid_size, layers,
                   concurrent_layers>>

\* tile.format() on the tile stored at position, chosen_chance being its draw
FormatTile(l, position, chosen_chance) ==
    /\ get_element_at(grid[l], position) # None
    /\ chosen_chance \in Draws(get_element_at(grid[l], position))
    /\ \E m \in {format([grid |-> grid, events |-> <<>>, warnings |-> 0,
                          rulebook |-> rulebook, error |-> ""],
                         l, get_element_at(grid[l], position), chosen_chance)} :
           /\ grid' = m.grid
           /\ events' = m.events
           /\ last' = [NoCall EXCEPT
                          !.op = "format", !.layer = l, !.position = position,
                          !.element = get_element_at(m.grid[l], position),
                          !.chosen_chance = chosen_chance,
                          !.warnings = m.warnings,
                          !.repeat = IF last.op = "format" /\ last.position = position
                                     THEN 1 ELSE 0,
                          !.ret = IF m.error # "" THEN m.error
                                  ELSE IF tile_changed(get_element_at(grid[l], position).display,
                                                       get_element_at(m.grid[l], position))
                                  THEN "True" ELSE "False",
                          !.before = [grid_size |-> grid_size, grid |-> grid]]
    /\ UNCHANGED <<cached, rulebook, tracer, min_grid_size, max_grid_size, grid_size, layers,
                   concurrent_layers>>

NextFormat ==
    \/ \E position \in TilePositions :
          \E tile \in FormatInputs(position) : AddTile("B", tile, FALSE)
    \/ \E position \in TilePositions, display \in VariationDisplays, chance \in Chances :
          AddVariation("B", position, display, chance)
    \/ \E position \in TilePositions, chosen_chance \in 0..MaxChanceSum :
          FormatTile("B", position, chosen_chance)

SpecFormat == InitTile /\ [][NextFormat]_vars

\* ------------------------------------------------------- the traced tile map
\* a tile map with the tilemap layer B alone and a TilemapBorderTracer on it
BSize == <<BW, BH>>
TracedPositions == (0..(BSize[1] - 1)) \X (0..(BSize[2] - 1))

\* the tiles handed to add_tile: autotile tiles of one group
TracedInputs(position) == {AutotileTile(position, "g")}

InitTracer ==
    /\ GridMap_init(BSize, BSize, BSize)
    /\ layers = <<"B">>
    /\ grid = [l \in Layers |-> IF l = "B" THEN initialize_grid(NoneGrid, grid_size)
                                           ELSE NoneGrid]

\* TilemapLayer.add_tile(tile) on the layer the tracer subscribed to:
\* add_element writes the cell and sends element_created with the keyword
\* element, and the tracer's receiver _handle_create_tile(sender, tile) is
\* called with it; an exception of the receiver ends add_tile. The tiles are
\* added at free cells, each after the tracer has been told of the one before
AddTracedTile(l, tile) ==
    /\ last.op # "add_tile"
    /\ get_element_at(grid[l], tile.position) = None
    /\ Cardinality(Stored(grid)) < MaxTraced
    /\ \E r \in {add_element([grid |-> grid, events |-> <<>>, warnings |-> 0,
                                rulebook |-> rulebook, error |-> ""],
                               grid_size, l, tile, <<>>)} :
       \E t \in {IF r.ret # "True" THEN tracer
                  ELSE IF receiver_call("element", "tile") # ""
                  THEN Raise(tracer, receiver_call("element", "tile"))
                  ELSE _handle_create_tile(tracer, r.m.grid[l], r.element)} :
           /\ grid' = r.m.grid
           /\ events' = r.m.events
           /\ tracer' = [t EXCEPT !.error = ""]
           /\ last' = [NoCall EXCEPT !.op = "add_tile", !.layer = l,
                                     !.position = tile.position,
                                     !.element = IF r.ret = "True" THEN r.element ELSE None,
                                     !.ret = IF t.error # "" THEN t.error ELSE r.ret]
    /\ UNCHANGED <<cached, rulebook, min_grid_size, max_grid_size, grid_size, layers, concurrent_layers>>

\* tracer._handle_create_tile(sender, tile), called with the tile that has
\* just been added at position
HandleCreateTile(l, position) ==
    /\ last.op = "add_tile"
    /\ last.position = position
    /\ get_element_at(grid[l], position) # None
    /\ \E t \in {_handle_create_tile(tracer, grid[l], get_element_at(grid[l], position))} :
           /\ tracer' = [t EXCEPT !.error = ""]
           /\ last' = [NoCall EXCEPT !.op = "_handle_create_tile", !.layer = l,
                                     !.position = position,
                                     !.element = get_element_at(grid[l], position),
                                     !.ret = IF t.error # "" THEN t.error ELSE "None"]
    /\ events' = IF tracer'.error = "" /\ last'.ret = "None"
                 THEN <<Event("tile_created", get_element_at(grid[l], position), l, grid)>>
                 ELSE <<>>
    /\ UNCHANGED <<cached, rulebook, min_grid_size, max_grid_size, grid_size, layers, grid,
                   concurrent_layers>>

NextTracer ==
    \/ \E position \in TracedPositions : \E tile \in TracedInputs(position) :
          AddTracedTile("B", tile)
    \/ \E position \in TracedPositions : HandleCreateTile("B", position)

SpecTracer == InitTracer /\ [][NextTracer]_vars

\* ------------------------------------------- insertion orders on a traced map
\* the lines of tracer t, each as its start, end and orientation
LinesOf(t) == {t.line[id] : id \in t.lines}

\* the insertions of SpecTracer in a row: for each cell of cells, in order,
\* layer.add_tile of a tile of group "g", whose signal does not get into the
\* receiver, then tracer._handle_create_tile(sender, tile); an exception ends
\* the call it is raised in and the next insertion follows
RECURSIVE InsertTiles(_, _, _)
InsertTiles(s, l, cells) ==
    IF cells = <<>> THEN s
    ELSE Only({
             InsertTiles([grid |-> r.m.grid,
                          tracer |-> IF r.ret # "True" THEN s.tracer
                                     ELSE [_handle_create_tile(s.tracer, r.m.grid[l], r.element)
                                              EXCEPT !.error = ""]],
                         l, Tail(cells))
             : r \in {add_element([grid |-> s.grid, events |-> <<>>, warnings |-> 0,
                                   rulebook |-> rulebook, error |-> ""],
                                  grid_size, l, AutotileTile(Head(cells), "g"), <<>>)}})

\* the same cells filled twice from the empty map, in the order first and in
\* the order second; the map and the tracer are left as the first order
\* leaves them and the lines of both are kept
InsertInOrders(l, first, second) ==
    /\ last.op = "init"
    /\ \E a \in {InsertTiles([grid |-> grid, tracer |-> tracer], l, first)},
          b \in {InsertTiles([grid |-> grid, tracer |-> tracer], l, second)} :
           /\ grid' = a.grid
           /\ tracer' = a.tracer
           /\ last' = [NoCall EXCEPT !.op = "insert_in_orders", !.layer = l,
                                     !.positions = Range(first),
                                     !.result = [first |-> first, second |-> second,
                                                 lines_first |-> LinesOf(a.tracer),
                                                 lines_second |-> LinesOf(b.tracer)]]
    /\ events' = <<>>
    /\ UNCHANGED <<cached, rulebook, min_grid_size, max_grid_size, grid_size, layers,
                   concurrent_layers>>

\* the sets of distinct cells that are filled
OrderedCells == {S \in SUBSET TracedPositions : Cardinality(S) \in 1..MaxOrdered}

NextOrder ==
    \E S \in OrderedCells : \E first \in Orders(S), second \in Orders(S) :
        InsertInOrders("B", first, second)

SpecOrder == InitTracer /\ [][NextOrder]_vars

\* --------------------------------------------- overwrites on a traced map
\* TilemapLayer.add_tile(tile) at a cell that holds a tile, on the layer the
\* tracer subscribed to: add_element empties the cell, writes the new tile
\* and sends element_created to the tracer's receiver as AddTracedTile does
OverwriteTracedTile(l, tile) ==
    /\ last.op # "add_tile"
    /\ get_element_at(grid[l], tile.position) # None
    /\ \E r \in {add_element([grid |-> grid, events |-> <<>>, warnings |-> 0,
                                rulebook |-> rulebook, error |-> ""],
                               grid_size, l, tile, <<>>)} :
       \E t \in {IF r.ret # "True" THEN tracer
                  ELSE IF receiver_call("element", "tile") # ""
                  THEN Raise(tracer, receiver_call("element", "tile"))
                  ELSE _handle_create_tile(tracer, r.m.grid[l], r.element)} :
           /\ grid' = r.m.grid
           /\ events' = r.m.events
           /\ tracer' = [t EXCEPT !.error = ""]
           /\ last' = [NoCall EXCEPT !.op = "add_tile", !.layer = l,
                                     !.position = tile.position,
                                     !.element = IF r.ret = "True" THEN r.element ELSE None,
                                     !.ret = IF t.error # "" THEN t.error ELSE r.ret,
                                     !.before = [grid_size |-> grid_size, grid |-> grid]]
    /\ UNCHANGED <<cached, rulebook, min_grid_size, max_grid_size, grid_size, layers,
                   concurrent_layers>>

NextOverwrite ==
    \/ \E position \in TracedPositions : \E tile \in TracedInputs(position) :
          AddTracedTile("B", tile)
    \/ \E position \in TracedPositions : \E tile \in TracedInputs(position) :
          OverwriteTracedTile("B", tile)
    \/ \E position \in TracedPositions : HandleCreateTile("B", position)

SpecOverwrite == InitTracer /\ [][NextOverwrite]_vars

\* ------------------------------------------------- the neighbour queries
AdjacencyRules == {"eight", "four"}
Radii == 1..MaxRadius
QSize == <<QW, QH>>
QueriedPositions == (0..(QSize[1] - 1)) \X (0..(QSize[2] - 1))

InitQuery ==
    /\ GridMap_init(QSize, QSize, QSize)
    /\ layers = <<"B">>
    /\ grid = [l \in Layers |-> IF l = "B" THEN initialize_grid(NoneGrid, grid_size)
                                           ELSE NoneGrid]

\* the three queries of a neighbor processor of layer l, asked about the tile
\* that add_tile has just stored at center
GetNeighbors(l, center, adjacency_rule, same_autotile_object, radius) ==
    /\ last.op = "add_tile"
    /\ last.position = center
    /\ get_element_at(grid[l], center) # None
    /\ \E tile \in {get_element_at(grid[l], center)} :
       \E amount \in {get_amount_of_neighbors_of(grid[l], adjacency_rule,
                                                 same_autotile_object, tile, radius)} :
       \E bool_grid \in {get_neighbors_bool_grid(grid[l], adjacency_rule,
                                                 same_autotile_object, tile, radius)} :
       \E neighbors \in {get_neighbors_of(grid[l], adjacency_rule,
                                          same_autotile_object, tile, radius)} :
           last' = [NoCall EXCEPT !.op = "neighbors", !.layer = l,
                                  !.position = center,
                                  !.element = tile,
                                  !.adjacency_rule = adjacency_rule,
                                  !.same_autotile_object = same_autotile_object,
                                  !.radius = radius,
                                  !.result =
                                      [amount |-> amount,
                                       bool_grid |->
                                           IF Len(bool_grid) = 1
                                           THEN [error |-> bool_grid[1], ret |-> <<>>]
                                           ELSE [error |-> "", ret |-> bool_grid],
                                       neighbors |-> neighbors]]
    /\ events' = <<>>
    /\ UNCHANGED <<cached, rulebook, tracer, min_grid_size, max_grid_size, grid_size, layers, grid,
                   concurrent_layers>>

\* the tile map with tiles added unformatted at free cells and neighbor
\* processors of both adjacency rules asked about the tile just added
NextQuery ==
    \/ \E position \in QueriedPositions : \E tile \in FormatInputs(position) :
          /\ get_element_at(grid["B"], position) = None
          /\ Cardinality(Stored(grid)) < MaxQueried
          /\ AddTile("B", tile, FALSE)
    \/ \E center \in QueriedPositions, adjacency_rule \in AdjacencyRules,
          same_autotile_object \in BOOLEAN, radius \in Radii :
          GetNeighbors("B", center, adjacency_rule, same_autotile_object, radius)

SpecQuery == InitQuery /\ [][NextQuery]_vars

\* ------------------------------------- formatted tiles on a resizable map
\* a map that can grow and shrink, with the tilemap layer B alone
InitStruct ==
    /\ \E size \in (MinW..MaxW) \X (MinH..MaxH) :
          GridMap_init(size, <<MinW, MinH>>, <<MaxW, MaxH>>)
    /\ layers = <<"B">>
    /\ grid = [l \in Layers |-> IF l = "B" THEN initialize_grid(NoneGrid, grid_size)
                                           ELSE NoneGrid]

\* tiles added and removed with formatting on a cell of the map, and the map
\* expanded and reduced by at least one cell
NextStruct ==
    \/ \E position \in MapPositions : \E tile \in FormatInputs(position) :
          /\ GridMap_position_is_valid(grid_size, position)
          /\ AddTile("B", tile, TRUE)
    \/ \E position \in MapPositions :
          /\ GridMap_position_is_valid(grid_size, position)
          /\ RemoveTileAt("B", position, TRUE)
    \/ \E direction \in Directions, size \in 1..MaxN : ExpandTowards(direction, size)
    \/ \E direction \in Directions, size \in 1..MaxN : ReduceTowards(direction, size)

SpecStruct == InitStruct /\ [][NextStruct]_vars

\* ------------------------------------------------- the rule lists of a layer
\* the tile map of one row, its layer B built with RuleTable, whose rule
\* lists are replaced and extended while tiles are added and formatted
GroupNames == {"default", "g", "k"}

\* a rule no neighbor grid of the one-row map satisfies, the cells above and
\* below the tile being both outside the map, and a rule every grid satisfies
NeverRule == AutotileRule(<< <<2, 0, 2>>, <<2, 1, 2>>, <<2, 3, 2>> >>, <<3, 0>>)
AnyRule == AutotileRule(<< <<2, 2, 2>>, <<2, 1, 2>>, <<2, 2, 2>> >>, <<4, 0>>)

\* the lists handed to set_autotile_rules and the rules handed to
\* add_autotile_rule
RuleLists == {<<NeverRule>>, <<NeverRule, AnyRule>>}
RuleArgs == {<<AnyRule>>, <<NeverRule>>}

\* the tiles handed to add_tile: one of a group the dict knows and one of a
\* group it does not know
RuleTableInputs(position) == {AutotileTile(position, "g"), AutotileTile(position, "k")}

\* layer.set_autotile_rules(name, rules)
SetAutotileRules(l, name, rules) ==
    /\ Len(rulebook.lists) < MaxLists
    /\ rulebook' = set_autotile_rules(rulebook, name, rules)
    /\ last' = [NoCall EXCEPT !.op = "set_autotile_rules", !.layer = l, !.name = name,
                              !.ret = "None"]
    /\ events' = <<>>
    /\ UNCHANGED <<cached, grid, tracer, min_grid_size, max_grid_size, grid_size, layers,
                   concurrent_layers>>

\* layer.add_autotile_rule(name, *rules)
AddAutotileRule(l, name, rules) ==
    /\ name \in DOMAIN rulebook.table => Len(rulebook.lists[rulebook.table[name]]) < MaxRuleLen
    /\ \E r \in {add_autotile_rule(rulebook, name, rules)} :
           /\ rulebook' = r.rulebook
           /\ last' = [NoCall EXCEPT !.op = "add_autotile_rule", !.layer = l, !.name = name,
                                     !.ret = IF r.error # "" THEN r.error ELSE "None"]
    /\ events' = <<>>
    /\ UNCHANGED <<cached, grid, tracer, min_grid_size, max_grid_size, grid_size, layers,
                   concurrent_layers>>

NextRuleTable ==
    \/ \E position \in TilePositions :
          /\ get_element_at(grid["B"], position) = None
          /\ \E tile \in RuleTableInputs(position) : AddTile("B", tile, FALSE)
    \/ \E name \in GroupNames, rules \in RuleLists : SetAutotileRules("B", name, rules)
    \/ \E name \in GroupNames, rules \in RuleArgs : AddAutotileRule("B", name, rules)
    \/ \E position \in TilePositions : FormatTile("B", position, 0)

SpecRuleTable == InitTile /\ [][NextRuleTable]_vars


\* ------------------------------------------------------------ rule groups
\* the base matrices, 3 x 3, and the displays and amounts of the calls
BaseMatrices == [1..3 -> [1..3 -> 0..MaxCell]]
BaseDisplays == {<<x, x + 1>> : x \in 0..MaxD}
Amounts == {2, 4}

\* the arguments of a call of get_rule_group about to be made
InitRule ==
    /\ min_grid_size = TSize
    /\ max_grid_size = TSize
    /\ grid_size = TSize
    /\ layers = <<>>
    /\ grid = [l \in Layers |-> NoneGrid]
    /\ concurrent_layers = [l \in Layers |-> {}]
    /\ events = <<>>
    /\ tracer = TilemapBorderTracer
    /\ rulebook = TilemapLayer_init
    /\ cached = [l \in Layers |-> GridLayer_init]
    /\ \E rule_matrix \in BaseMatrices, display \in BaseDisplays, amount \in Amounts :
          last = [op |-> "arguments", rule_matrix |-> rule_matrix, display |-> display,
                  amount |-> amount, ret |-> <<>>]

\* get_rule_group(rule_matrix, display, amount)
GetRuleGroup ==
    /\ last.op = "arguments"
    /\ last' = [last EXCEPT !.op = "get_rule_group",
                            !.ret = get_rule_group(last.rule_matrix, last.display, last.amount)]
    /\ UNCHANGED <<cached, rulebook, tracer, min_grid_size, max_grid_size, grid_size, layers, grid,
                   concurrent_layers, events>>

NextRule == GetRuleGroup

SpecRule == InitRule /\ [][NextRule]_vars

\* np.resize(grid, new_shape): the flattened cells, repeated, in the new
\* shape; zeros when the grid has no cell
np_resize(g, new_shape) ==
    [rows |-> new_shape[1], cols |-> new_shape[2],
     cells |-> [p \in (0..(new_shape[1] - 1)) \X (0..(new_shape[2] - 1)) |->
                  IF g.rows * g.cols = 0 THEN PadZero
                  ELSE LET i == (p[1] * new_shape[2] + p[2]) % (g.rows * g.cols)
                       IN  g.cells[<<i \div g.cols, i % g.cols>>]]]

\* GridLayer.resize(size)
GridLayer_resize(g, size) == np_resize(g, size)

\* GridMap.resize(size)
Resize(size) ==
    /\ grid_size' = size
    /\ grid' = [l \in Layers |-> IF l \in Range(layers)
                                 THEN GridLayer_resize(grid[l], size) ELSE grid[l]]
    /\ events' = <<>>
    /\ last' = [NoCall EXCEPT !.op = "resize", !.ret = "None"]
    /\ UNCHANGED <<cached, rulebook, tracer, min_grid_size, max_grid_size, layers, concurrent_layers>>

\* the grid_size setter of GridMap
SetGridSize(value) ==
    /\ grid_size' = clamp_size(value)
    /\ events' = <<>>
    /\ last' = [NoCall EXCEPT !.op = "grid_size", !.ret = "None"]
    /\ UNCHANGED <<cached, rulebook, tracer, min_grid_size, max_grid_size, layers, grid,
                   concurrent_layers>>

\* a map that can grow and shrink, its layers not yet added
InitSize ==
    /\ \E size \in (0..(MaxW + 1)) \X (0..(MaxH + 1)) :
          GridMap_init(size, <<MinW, MinH>>, <<MaxW, MaxH>>)
    /\ layers = <<>>
    /\ grid = [l \in Layers |-> NoneGrid]

\* the sizes a caller passes to resize or assigns to grid_size
Sizes == (1..(MaxW + 1)) \X (1..(MaxH + 1))

\* the size of a map and of its layers under add_layer, resize and
\* assignments to grid_size
NextSize ==
    \/ \E l \in Layers, at \in 0..Len(layers) : AddLayer(l, at)
    \/ \E size \in Sizes : Resize(size)
    \/ \E value \in Sizes : SetGridSize(value)

SpecSize == InitSize /\ [][NextSize]_vars

\* ------------------------------------------------------ the order of layers
\* a map of fixed size, its layers not yet added
InitLayers ==
    /\ \E size \in (0..(LSize[1] + 1)) \X (0..(LSize[2] + 1)) :
          GridMap_init(size, LSize, LSize)
    /\ layers = <<>>
    /\ grid = [l \in Layers |-> NoneGrid]

\* a read of layer.index, layer.layer_above or layer.layer_below, for a layer
\* of the map
ReadCached(l, property) ==
    /\ l \in Range(layers)
    /\ \E r \in {IF property = "index" THEN index(cached, layers, l)
                  ELSE IF property = "layer_above" THEN layer_above(cached, layers, l)
                  ELSE layer_below(cached, layers, l)} :
           /\ cached' = r.cached
           /\ last' = [NoCall EXCEPT !.op = property, !.layer = l, !.result = <<r.ret>>]
    /\ events' = <<>>
    /\ UNCHANGED <<rulebook, tracer, min_grid_size, max_grid_size, grid_size, layers, grid,
                   concurrent_layers>>

CachedProperties == {"index", "layer_above", "layer_below"}

NextLayers ==
    \/ \E l \in Layers, at \in 0..Len(layers) : AddLayer(l, at)
    \/ \E l \in Layers, property \in CachedProperties : ReadCached(l, property)

SpecLayers == InitLayers /\ [][NextLayers]_vars

\* ---------------------------------------------------------------- claims
\* no position holds a non-locked element in two mutually concurrent layers
NoOverlap ==
    \A l1 \in Layers : \A l2 \in concurrent_layers[l1] :
        \A p \in DOMAIN grid[l1].cells :
            LET e1 == grid[l1].cells[p]
                e2 == get_element_at(grid[l2], <<p[2], p[1]>>)
            IN  ~(e1 # None /\ ~e1.locked /\ e2 # None /\ ~e2.locked)

\* C1: on layers that were declared mutually concurrent, no call (add_element
\* in particular) brings a position to hold a non-locked element in more than
\* one of them: while the declaration stands, a state without such a position
\* is followed by a state without one.
C1_ConcurrencyKept ==
    [][(concurrent_layers' = concurrent_layers /\ NoOverlap) => NoOverlap']_vars

\* an add_element that succeeded by evicting the occupant of a concurrent layer
C1_Witness ==
    /\ last.op = "add_element"
    /\ last.ret = "True"
    /\ \E i \in DOMAIN events :
          /\ events[i].name = "element_removed"
          /\ events[i].layer \in concurrent_layers[last.layer]
    /\ NoOverlap

\* the target cell of layer l, or the cell of a concurrent layer at position,
\* holds a locked element
Blocked(l, position) ==
    \/ get_element_at(grid[l], position).locked
    \/ \E sibling \in concurrent_layers[l] : get_element_at(grid[sibling], position).locked

\* C2: an add_element whose target cell, or a concurrent layer at that
\* position, holds a locked element returns False, changes no grid and sends
\* no event.
C2_BlockedAddMutatesNothing ==
    [][(last'.op = "add_element" /\ Blocked(last'.layer, last'.position))
        => (last'.ret = "False" /\ grid' = grid /\ events' = <<>>)]_vars

\* C3: after add_element(e) returned True the layer's cell at e.position holds
\* e, e's back-reference is the layer, every concurrent layer is empty at
\* e.position, and exactly one element_created event was sent, carrying e.
C3_SuccessfulAdd ==
    (last.op = "add_element" /\ last.ret = "True") =>
        /\ get_element_at(grid[last.layer], last.position) = last.element
        /\ last.element.position = last.position
        /\ last.element.layer = last.layer
        /\ \A sibling \in concurrent_layers[last.layer] :
              get_element_at(grid[sibling], last.position) = None
        /\ Cardinality({i \in DOMAIN events : events[i].name = "element_created"}) = 1
        /\ \A i \in DOMAIN events :
              events[i].name = "element_created" =>
                  events[i].element = last.element /\ events[i].layer = last.layer

\* a successful add_element on a layer with a concurrent layer, which evicted
\* at least one element
C3_Witness ==
    /\ last.op = "add_element"
    /\ last.ret = "True"
    /\ concurrent_layers[last.layer] # {}
    /\ Len(events) >= 2

\* C4: after a successful add_element of a unique element, no other element of
\* the layer has its name.
C4_UniqueIsAlone ==
    (last.op = "add_element" /\ last.ret = "True" /\ last.element.unique) =>
        \A p \in DOMAIN grid[last.layer].cells :
            LET e == grid[last.layer].cells[p]
            IN  (e # None /\ e.name = last.element.name) => e = last.element

\* C5: every locked element stored before an add_element call is stored in
\* the same cell after it.
C5_LockedStays ==
    [][last'.op = "add_element" =>
        \A l \in Layers : \A p \in DOMAIN grid[l].cells :
            (grid[l].cells[p] # None /\ grid[l].cells[p].locked)
                => grid'[l].cells[p] = grid[l].cells[p]]_vars

\* C6: every layer registered in the map has the map's grid size.
C6_LayerSizeIsMapSize ==
    \A i \in DOMAIN layers : GridLayer_grid_size(grid[layers[i]]) = grid_size

\* C7: the map's grid size lies within [min_grid_size, max_grid_size] in
\* both components.
C7_SizeWithinBounds ==
    /\ min_grid_size[1] <= grid_size[1] /\ grid_size[1] <= max_grid_size[1]
    /\ min_grid_size[2] <= grid_size[2] /\ grid_size[2] <= max_grid_size[2]

\* the grid size after delta cells are added on side direction
ResultingSize(direction, delta) ==
    IF direction \in {"left", "right"}
    THEN <<grid_size[1] + delta, grid_size[2]>>
    ELSE <<grid_size[1], grid_size[2] + delta>>

\* C8: an expand_towards whose resulting size exceeds max_grid_size, and a
\* reduce_towards whose resulting size falls below min_grid_size, changes
\* neither the map's grid size nor any layer's grid (so no element moves or
\* is removed), sends no event and returns no positions.
C8_BoundViolatingResizeIsNoOp ==
    [][( \/ /\ last'.op = "expand_towards"
            /\ LET n == ResultingSize(last'.direction, last'.size)
               IN  n[1] > max_grid_size[1] \/ n[2] > max_grid_size[2]
         \/ /\ last'.op = "reduce_towards"
            /\ LET n == ResultingSize(last'.direction, -last'.size)
               IN  n[1] < min_grid_size[1] \/ n[2] < min_grid_size[2] )
        => ( /\ grid_size' = grid_size
             /\ grid' = grid
             /\ events' = <<>>
             /\ last'.ret = "None"
             /\ last'.positions = {} )]_vars

\* an expand_towards that was refused on a map that holds an element
C8_Witness ==
    /\ last.op = "expand_towards"
    /\ last.ret = "None"
    /\ Stored(grid) # {}

\* the move of a retained element under a successful resize
Delta(op, direction, size) ==
    IF op = "expand_towards" /\ direction = "left" THEN <<size, 0>>
    ELSE IF op = "expand_towards" /\ direction = "top" THEN <<0, size>>
    ELSE IF op = "reduce_towards" /\ direction = "left" THEN <<-size, 0>>
    ELSE IF op = "reduce_towards" /\ direction = "top" THEN <<0, -size>>
    ELSE <<0, 0>>

\* position is not on the edge a reduce_towards removes
Retained(op, direction, size, position) ==
    \/ op = "expand_towards"
    \/ direction = "left" /\ position[1] >= size
    \/ direction = "right" /\ position[1] < grid_size[1] - size
    \/ direction = "top" /\ position[2] >= size
    \/ direction = "bottom" /\ position[2] < grid_size[2] - size

\* C9: a successful expand_towards or reduce_towards of n cells moves every
\* retained element by n along the axis when the low edge (top, left) changes
\* (plus n on expansion, minus n on reduction) and not at all when the high
\* edge changes, and get_element_at finds the element at its new position.
C9_RetainedElementsShift ==
    [][(last'.op \in {"expand_towards", "reduce_towards"} /\ last'.ret = "positions") =>
        \A l \in Range(layers) : \A p \in DOMAIN grid[l].cells :
            LET e == grid[l].cells[p]
                d == Delta(last'.op, last'.direction, last'.size)
                moved == [e EXCEPT !.position = <<@[1] + d[1], @[2] + d[2]>>]
            IN  (e # None /\ Retained(last'.op, last'.direction, last'.size, e.position))
                    => get_element_at(grid'[l], moved.position) = moved]_vars

\* C10: a reduce_towards(dir, n) that directly follows a successful
\* expand_towards(dir, n) restores the grid size and every layer's grid, with
\* every element in its cell and at its position, as they were before the
\* expansion.
C10_ExpandThenReduce ==
    [][last'.undo => (grid_size' = last.before.grid_size /\ grid' = last.before.grid)]_vars

\* the n outermost columns or rows on side direction of a grid of size gs
Strip(gs, direction, n) ==
    {p \in (0..(gs[1] - 1)) \X (0..(gs[2] - 1)) :
        \/ direction = "left" /\ p[1] < n
        \/ direction = "right" /\ p[1] >= gs[1] - n
        \/ direction = "top" /\ p[2] < n
        \/ direction = "bottom" /\ p[2] >= gs[2] - n}

\* C11: a successful expand_towards(dir, n) returns exactly the n outermost
\* columns or rows on side dir of the new grid, and each of these positions is
\* an empty cell of every layer; a successful reduce_towards(dir, n) returns
\* exactly the n outermost columns or rows on side dir of the grid before it.
C11_ReturnedEdgePositions ==
    [][last'.ret = "positions" =>
        /\ last'.op = "expand_towards" =>
              /\ last'.positions = Strip(grid_size', last'.direction, last'.size)
              /\ \A l \in Range(layers) : \A p \in last'.positions :
                    /\ LayerChecker_position_is_valid(grid'[l], p)
                    /\ get_element_at(grid'[l], p) = None
        /\ last'.op = "reduce_towards" =>
              last'.positions = Strip(grid_size, last'.direction, last'.size)]_vars

\* position is not a cell of the grid of layer l
Outside(l, position) ==
    \/ position[1] < 0 \/ position[1] >= grid[l].cols
    \/ position[2] < 0 \/ position[2] >= grid[l].rows

\* C12: add_element with an element whose position is outside the layer's
\* grid raises, changes no grid (the layer's or a concurrent layer's), leaves
\* the element without a layer and sends no event.
C12_OutOfBoundsAddRaises ==
    [][(last'.op = "add_element" /\ Outside(last'.layer, last'.position)) =>
        /\ last'.ret = "ValueError"
        /\ grid' = grid
        /\ events' = <<>>
        /\ last'.element.layer = ""
        /\ last'.element.position = last'.position]_vars

\* an add_element that raised, on a layer that has a concurrent layer, on a
\* map that holds elements
C12_Witness ==
    /\ last.op = "add_element"
    /\ last.ret = "ValueError"
    /\ concurrent_layers[last.layer] # {}
    /\ Stored(grid) # {}

\* C13: element_created is sent after the insertion is fully applied: its
\* subscribers see the grids the call ends with, in which the layer's cell at
\* the element's position holds the new element, and every removal event of
\* the call (own cell, concurrent layers, unique namesakes) was sent before it.
C13_CreatedAfterMutation ==
    \A i \in DOMAIN events :
        events[i].name = "element_created" =>
            /\ events[i].grid = grid
            /\ get_element_at(events[i].grid[events[i].layer], events[i].element.position)
                  = events[i].element
            /\ i = Len(events)

\* an insertion that evicted from the own cell or a concurrent layer, and
\* evicted a namesake as well
C13_Witness ==
    /\ last.op = "add_element"
    /\ last.ret = "True"
    /\ last.element.unique
    /\ Len(events) >= 3
    /\ events[Len(events)].name = "element_created"

\* C14: when add_tile runs with apply_formatting, the formatting of the
\* tile and of its autotile neighbors comes before element_created: every
\* tile_formatted event of the call precedes it, and its subscribers see the
\* grid, displays included, that the call ends with.
C14_FormattingBeforeCreated ==
    (last.op = "add_tile" /\ last.ret = "True" /\ last.apply_formatting) =>
        \A i \in DOMAIN events :
            events[i].name = "element_created" =>
                /\ events[i].grid = grid
                /\ \A j \in DOMAIN events : events[j].name = "tile_formatted" => j < i

\* C15: element_directly_removed tells a direct removal from an eviction: a
\* remove_element_at that finds an element clears the cell and sends
\* element_removed and element_directly_removed for it, and no removal made
\* inside add_element sends element_directly_removed.
C15_DirectlyRemovedOnlyWhenDirect ==
    /\ (last.op = "remove_element_at" /\ last.ret = "element") =>
          /\ get_element_at(grid[last.layer], last.position) = None
          /\ \E i \in DOMAIN events :
                /\ events[i].name = "element_directly_removed"
                /\ events[i].element = last.element
    /\ last.op = "add_element" =>
          \A i \in DOMAIN events : events[i].name # "element_directly_removed"

\* the element is held by a cell of the layer its back-reference names
StoredInItsLayer(element) ==
    IF element.layer \in Layers
    THEN get_element_at(grid[element.layer], element.position) = element
    ELSE FALSE

\* C16: an element has a back-reference to a layer exactly while a cell of
\* that layer holds it: every stored element names the layer that stores it,
\* and the element the last call added, removed or refused has a
\* back-reference if and only if it is stored.
C16_BackReferenceIffStored ==
    /\ \A l \in Layers : \A p \in DOMAIN grid[l].cells :
          grid[l].cells[p] # None => grid[l].cells[p].layer = l
    /\ last.element # None =>
          (last.element.layer # "" <=> StoredInItsLayer(last.element))

\* C17: removing a locked element is a no-op told by the return value: after
\* remove_element_at or remove_tile_at found a locked element, the cell still
\* holds it, no event was sent and the call returned None.
C17_LockedRemovalIsNoOp ==
    (/\ last.op \in {"remove_element_at", "remove_tile_at"}
     /\ last.element # None
     /\ last.element.locked) =>
        /\ get_element_at(grid[last.layer], last.position) = last.element
        /\ events = <<>>
        /\ last.ret = "None"

\* C18: a visited position counts as a neighbor, without the same-group
\* filter, exactly when it is outside the grid or holds an element, and with
\* the filter exactly when it is inside the grid and holds an AutotileTile of
\* the subject's group name.
C18_NeighborClassification ==
    last.op = "_get_neighbor_of_tile_at" =>
        LET g == grid[last.layer]
            inside == LayerChecker_position_is_valid(g, last.position)
            neighbor == get_element_at(g, last.position)
            counts == last.ret \notin {"None", "AttributeError"}
        IN  IF last.same_autotile_object
            THEN counts <=> /\ inside
                            /\ neighbor.kind = "AutotileTile"
                            /\ last.element.kind = "AutotileTile"
                            /\ neighbor.name = last.element.name
            ELSE counts <=> (~inside \/ neighbor # None)

\* a quarter turn clockwise of a square matrix
QuarterTurn(matrix) ==
    [i \in 1..Len(matrix) |-> [j \in 1..Len(matrix) |-> matrix[Len(matrix) + 1 - j][i]]]

RECURSIVE Turned(_, _)
Turned(matrix, k) == IF k = 0 THEN matrix ELSE QuarterTurn(Turned(matrix, k - 1))

\* C19: for amount 2 or 4, get_rule_group returns amount rules; the k-th
\* (from 0) holds the base matrix turned by k quarter turns, and the displays
\* are (x, y), (x, y + 1) for amount 2 and (x, y), (x + 1, y), (x + 1, y + 1),
\* (x, y + 1) for amount 4.
C19_RuleGroup ==
    last.op = "get_rule_group" =>
        LET x == last.display[1]
            y == last.display[2]
            displays == IF last.amount = 2
                        THEN << <<x, y>>, <<x, y + 1>> >>
                        ELSE << <<x, y>>, <<x + 1, y>>, <<x + 1, y + 1>>, <<x, y + 1>> >>
        IN  /\ Len(last.ret) = last.amount
            /\ \A k \in 1..last.amount :
                  /\ last.ret[k].rule_matrix = Turned(last.rule_matrix, k - 1)
                  /\ last.ret[k].display = displays[k]

\* a group of four whose matrices all differ
C19_Witness ==
    /\ last.op = "get_rule_group"
    /\ last.amount = 4
    /\ \A j, k \in 1..4 : j # k => last.ret[j].rule_matrix # last.ret[k].rule_matrix

\* the cell (x, y) of the 3 x 3 same-group neighbor grid of tile: a position
\* other than the tile's, inside the grid, holding an AutotileTile of the
\* tile's group name
SameGroupNeighbor(g, tile, x, y) ==
    LET position == <<tile.position[1] + x - 2, tile.position[2] + y - 2>>
    IN  /\ position # tile.position
        /\ LayerChecker_position_is_valid(g, position)
        /\ get_element_at(g, position).kind = "AutotileTile"
        /\ get_element_at(g, position).name = tile.name

\* the cell (x, y) of the 3 x 3 neighbor grid of the layer's own neighbor
\* processor: a position other than the tile's that is outside the grid or
\* holds an element
LayerNeighbor(g, tile, x, y) ==
    LET position == <<tile.position[1] + x - 2, tile.position[2] + y - 2>>
    IN  /\ position # tile.position
        /\ \/ ~LayerChecker_position_is_valid(g, position)
           \/ get_element_at(g, position) # None

\* the rule matches the neighbor grid Neighbor of tile
Matches(Neighbor(_, _, _, _), rule, g, tile) ==
    \A y \in 1..3 : \A x \in 1..3 :
        /\ rule.rule_matrix[y][x] = 0 => ~Neighbor(g, tile, x, y)
        /\ rule.rule_matrix[y][x] = 3 => Neighbor(g, tile, x, y)

\* the indices of the rules of the tile's group that match
MatchingRules(Neighbor(_, _, _, _), g, tile) ==
    {k \in DOMAIN autotile_rules(tile.name) :
        Matches(Neighbor, autotile_rules(tile.name)[k], g, tile)}

\* the tile_formatted events of the last call sent by AutotileTile.format
AutotileFormats == {i \in DOMAIN events : /\ events[i].name = "tile_formatted"
                                          /\ events[i].element.kind = "AutotileTile"}

\* every AutotileTile.format of the last call gave the tile the display of
\* the first rule matching the grid Neighbor, or (0, 0) with one warning
FirstMatchingRule(Neighbor(_, _, _, _)) ==
    /\ \A i \in AutotileFormats :
          LET tile == events[i].element
              g == events[i].grid[events[i].layer]
              matching == MatchingRules(Neighbor, g, tile)
          IN  tile.display =
                  IF matching = {} THEN <<0, 0>>
                  ELSE autotile_rules(tile.name)[CHOOSE k \in matching :
                                                    \A j \in matching : k <= j].display
    /\ last.op \in {"add_tile", "remove_tile_at"} =>
          last.warnings = Cardinality({i \in AutotileFormats :
              MatchingRules(Neighbor, events[i].grid[events[i].layer], events[i].element) = {}})

TileBefore == get_element_at(last.before.grid[last.layer], last.position)

\* C21: formatting is idempotent for non-variated tiles: when format() runs
\* on a stored tile that has no variations right after a format() of the same
\* tile, nothing else having happened in between, the display is the one the
\* first call left and the second call returns False (no display change).
C21_FormatTwiceSameDisplay ==
    (/\ last.op = "format"
     /\ last.repeat = 1
     /\ Len(TileBefore.variations) = 0)
    => /\ last.element.display = TileBefore.display
       /\ last.ret = "False"

\* an autotile tile whose rules gave it another display than the initial one
\* has just been formatted a second time in a row
C21_Witness ==
    /\ last.op = "format"
    /\ last.repeat = 1
    /\ Len(TileBefore.variations) = 0
    /\ last.element.kind = "AutotileTile"
    /\ last.element.display # <<0, 0>>
    /\ last.ret = "False"

\* the weight accumulated by the first i entries of a variation table
RECURSIVE Cumulative(_, _)
Cumulative(table, i) == IF i = 0 THEN 0 ELSE Cumulative(table, i - 1) + table[i][2]

\* the first entry, in insertion order, whose cumulative weight exceeds d
FirstExceeding(table, d) ==
    CHOOSE i \in DOMAIN table :
        /\ Cumulative(table, i) > d
        /\ \A j \in 1..(i - 1) : Cumulative(table, j) <= d

\* format() has just run on a tile of the given kinds that had a non-empty
\* variation table, with a draw below the sum of the table's weights
DrawnFrom(kinds) ==
    /\ last.op = "format"
    /\ TileBefore.kind \in kinds
    /\ Len(TileBefore.variations) > 0
    /\ last.chosen_chance < Cumulative(TileBefore.variations, Len(TileBefore.variations))

\* the display is the coordinate of the first entry whose cumulative weight
\* exceeds the draw
FirstExceedingSelected ==
    last.element.display =
        TileBefore.variations[FirstExceeding(TileBefore.variations, last.chosen_chance)][1]

EdgesOf(line) ==
    IF line.orientation = "horizontal"
    THEN {<< <<x, line.start[2]>>, "horizontal">> : x \in line.start[1]..(line.end[1] - 1)}
    ELSE {<< <<line.start[1], y>>, "vertical">> : y \in line.start[2]..(line.end[2] - 1)}

\* the unit edges covered by the stored lines
CoveredEdges == UNION {EdgesOf(tracer.line[id]) : id \in tracer.lines}

\* the stored lines, as values
StoredLines == {tracer.line[id] : id \in tracer.lines}

\* the cells of the traced layer that hold a tile of group "g"
GroupCells ==
    {c \in TracedPositions : /\ get_element_at(grid["B"], c) # None
                             /\ get_element_at(grid["B"], c).kind = "AutotileTile"
                             /\ get_element_at(grid["B"], c).name = "g"}

\* the cells of the traced layer that hold a tile
TileCells == {c \in TracedPositions : get_element_at(grid["B"], c) # None}

\* the four sides of a cell: the cell beyond the side and the side's edge
Sides(c) ==
    {[beyond |-> <<c[1] + 1, c[2]>>, edge |-> << <<c[1] + 1, c[2]>>, "vertical">>],
     [beyond |-> <<c[1] - 1, c[2]>>, edge |-> <<c, "vertical">>],
     [beyond |-> <<c[1], c[2] - 1>>, edge |-> <<c, "horizontal">>],
     [beyond |-> <<c[1], c[2] + 1>>, edge |-> << <<c[1], c[2] + 1>>, "horizontal">>]}

\* the edges with a cell of the group on one side and an unoccupied or
\* out-of-grid cell on the other
BorderEdges ==
    {side.edge : side \in UNION {{sd \in Sides(c) : sd.beyond \notin GroupCells}
                                 : c \in GroupCells}}

\* the tracer has just been told of a tile's creation, by the layer's signal
\* or by a call of its handler
Observed == last.op \in {"add_tile", "_handle_create_tile"}

\* C23: after any sequence of same-group tile insertions observed by a
\* BorderTracer, the unit edges covered by the stored lines are exactly the
\* cell edges with an occupied same-group cell on one side and an unoccupied
\* or out-of-grid cell on the other.
C23_LinesAreTheBorder ==
    (Observed /\ TileCells = GroupCells) => CoveredEdges = BorderEdges

\* C24: every stored Line has positive length and start <= end on its axis,
\* and no node references a line of zero length.
C24_LinesHavePositiveLength ==
    /\ \A id \in tracer.lines :
          /\ Line_length(tracer.line[id]) > 0
          /\ tracer.line[id].start[1] <= tracer.line[id].end[1]
          /\ tracer.line[id].start[2] <= tracer.line[id].end[2]
          /\ IF tracer.line[id].orientation = "horizontal"
             THEN tracer.line[id].start[2] = tracer.line[id].end[2]
             ELSE tracer.line[id].start[1] = tracer.line[id].end[1]
    /\ \A q \in DOMAIN tracer.nodes : \A o \in {"horizontal", "vertical"} :
          tracer.nodes[q][o] # 0 => Line_length(tracer.line[tracer.nodes[q][o]]) > 0

\* the handler has extended a line: a line longer than one cell is stored
C24_Witness ==
    /\ last.op = "_handle_create_tile"
    /\ \E id \in tracer.lines : Line_length(tracer.line[id]) > 1
    /\ \E id \in tracer.lines : Line_length(tracer.line[id]) = 1

\* the corners of the traced map
Corners == (0..BSize[1]) \X (0..BSize[2])

\* the line a corner's node references under an orientation, 0 for none
Reference(q, o) == IF q \in DOMAIN tracer.nodes THEN tracer.nodes[q][o] ELSE 0

\* C25: node references and lines are reciprocal: a node at corner c
\* references line L under orientation o if and only if L is stored, has
\* orientation o and its span contains c; so no node references a line that
\* was removed, split or merged away.
C25_NodesAndLinesReciprocal ==
    \A q \in Corners : \A o \in {"horizontal", "vertical"} :
        \A id \in DOMAIN tracer.line :
            (Reference(q, o) = id)
            <=> (/\ id \in tracer.lines
                 /\ tracer.line[id].orientation = o
                 /\ q \in LinePositions(tracer.line[id]))

\* two lines have been merged into one of three cells, which every node on
\* it references, and no line but the stored ones is referenced
C25_Witness ==
    /\ last.op = "_handle_create_tile"
    /\ Cardinality(tracer.lines) < Len(tracer.line)
    /\ \E id \in tracer.lines :
          /\ Cardinality(LinePositions(tracer.line[id])) = 4
          /\ \A q \in LinePositions(tracer.line[id]) :
                Reference(q, tracer.line[id].orientation) = id

\* C26: no two distinct stored lines of the same orientation on the same
\* axis position share a unit segment.
C26_NoOverlappingLines ==
    \A id_1 \in tracer.lines : \A id_2 \in tracer.lines :
        id_1 # id_2 => EdgesOf(tracer.line[id_1]) \cap EdgesOf(tracer.line[id_2]) = {}

\* two stored lines lie on the same axis, apart from each other
C26_Witness ==
    /\ last.op = "_handle_create_tile"
    /\ \E id_1 \in tracer.lines : \E id_2 \in tracer.lines :
          /\ id_1 # id_2
          /\ tracer.line[id_1].orientation = tracer.line[id_2].orientation
          /\ IF tracer.line[id_1].orientation = "horizontal"
             THEN tracer.line[id_1].start[2] = tracer.line[id_2].start[2]
             ELSE tracer.line[id_1].start[1] = tracer.line[id_2].start[1]

\* the cells with the four sides inside the grid
Interior == {c \in TracedPositions : \A side \in Sides(c) : side.beyond \in TracedPositions}

\* the four unit lines around a cell
UnitLinesAround(c) ==
    {Line(<<c, <<c[1] + 1, c[2]>> >>, "horizontal"),
     Line(<< <<c[1], c[2] + 1>>, <<c[1] + 1, c[2] + 1>> >>, "horizontal"),
     Line(<<c, <<c[1], c[2] + 1>> >>, "vertical"),
     Line(<< <<c[1] + 1, c[2]>>, <<c[1] + 1, c[2] + 1>> >>, "vertical")}

\* the four lines around the block of cell c and the cell to its right
BlockLinesAround(c) ==
    {Line(<<c, <<c[1] + 2, c[2]>> >>, "horizontal"),
     Line(<< <<c[1], c[2] + 1>>, <<c[1] + 2, c[2] + 1>> >>, "horizontal"),
     Line(<<c, <<c[1], c[2] + 1>> >>, "vertical"),
     Line(<< <<c[1] + 2, c[2]>>, <<c[1] + 2, c[2] + 1>> >>, "vertical")}

\* C27: on an empty grid, inserting one tile at an interior cell yields
\* exactly the 4 unit lines bounding that cell; inserting a second same-group
\* tile in the horizontally adjacent cell leaves exactly one line per exposed
\* side of the 2x1 block: two horizontal lines of length 2 and two vertical
\* lines of length 1.
C27_OneTileThenBlock ==
    \A c \in Interior :
        /\ (Observed /\ last.position = c /\ TileCells = {c} /\ GroupCells = {c})
           => /\ StoredLines = UnitLinesAround(c)
              /\ Cardinality(tracer.lines) = 4
        /\ (/\ Observed
            /\ last.position = <<c[1] + 1, c[2]>>
            /\ TileCells = {c, <<c[1] + 1, c[2]>>}
            /\ GroupCells = TileCells)
           => /\ StoredLines = BlockLinesAround(c)
              /\ Cardinality(tracer.lines) = 4

\* C28: when a tile is inserted in a cell on the edge of the grid, the
\* creation handler completes without error and afterwards a stored line
\* covers each side of the cell that faces out-of-grid space.
C28_EdgeSidesAreBorders ==
    (Observed /\ last.position \in TracedPositions \ Interior)
    => /\ last.ret \in {"True", "None"}
       /\ \A side \in Sides(last.position) :
              side.beyond \notin TracedPositions => side.edge \in CoveredEdges

\* the positions position_is_valid is asked about: the cells of the largest
\* map and the ones next to them on every side
ProbedPositions == ((-1)..(MaxW + 1)) \X ((-1)..(MaxH + 1))

\* C29: for every position p and grid size (w, h), position_is_valid(p)
\* holds iff 0 <= p.x < w and 0 <= p.y < h, and in every reachable state the
\* map's position_is_valid and the position check of each of its layers give
\* the same answer.
C29_PositionIsValid ==
    \A position \in ProbedPositions :
        /\ GridMap_position_is_valid(grid_size, position)
           <=> (position[1] \in 0..(grid_size[1] - 1) /\ position[2] \in 0..(grid_size[2] - 1))
        /\ \A i \in DOMAIN layers :
              LayerChecker_position_is_valid(grid[layers[i]], position)
              <=> GridMap_position_is_valid(grid_size, position)

\* the offsets of a neighbour matrix of the last query: <<ox, oy>>, from 1
QueryOffsets == (1..(2 * last.radius + 1)) \X (1..(2 * last.radius + 1))

\* the position the cell <<ox, oy>> of a neighbour matrix of the last query
\* stands for
PositionOfOffset(o) ==
    <<last.position[1] + o[1] - 1 - last.radius, last.position[2] + o[2] - 1 - last.radius>>

\* C30: the three neighbour queries agree for every tile and radius: they
\* raise the same error or none; when they return, get_amount_of_neighbors_of
\* is the number of True cells of get_neighbors_bool_grid, a cell of the
\* boolean grid is True iff the same cell of get_neighbors_of holds a
\* neighbour, a neighbour at position n is stored at index
\* (n - center + radius), and the centre cell is False and empty.
C30_NeighborQueriesAgree ==
    last.op = "neighbors" =>
        LET amount == last.result.amount
            bool_grid == last.result.bool_grid
            neighbors == last.result.neighbors
            centre == last.radius + 1
        IN  /\ amount.error = bool_grid.error
            /\ amount.error = neighbors.error
            /\ amount.error = "" =>
                  /\ amount.ret = Cardinality({o \in QueryOffsets : bool_grid.ret[o[2]][o[1]]})
                  /\ \A o \in QueryOffsets :
                        /\ bool_grid.ret[o[2]][o[1]] <=> neighbors.ret[o[2]][o[1]] # None
                        /\ neighbors.ret[o[2]][o[1]] \notin {None, OutOfGrid} =>
                              /\ neighbors.ret[o[2]][o[1]].position = PositionOfOffset(o)
                              /\ get_element_at(grid[last.layer], PositionOfOffset(o))
                                     = neighbors.ret[o[2]][o[1]]
                        /\ neighbors.ret[o[2]][o[1]] = OutOfGrid =>
                              ~LayerChecker_position_is_valid(grid[last.layer], PositionOfOffset(o))
                  /\ ~bool_grid.ret[centre][centre]
                  /\ neighbors.ret[centre][centre] = None

\* a query of radius 2 around a tile with a stored tile next to it and the
\* grid's edge in reach has returned: the matrices hold a tile and an
\* out-of-grid neighbour
C30_Witness ==
    /\ last.op = "neighbors"
    /\ last.radius = 2
    /\ last.result.amount.error = ""
    /\ last.result.amount.ret > 1
    /\ \E o \in QueryOffsets : last.result.neighbors.ret[o[2]][o[1]].kind \in {"Tile", "AutotileTile"}
    /\ \E o \in QueryOffsets : last.result.neighbors.ret[o[2]][o[1]] = OutOfGrid

\* the elements of layer l stored at the positions a reduce_towards returned
OnRemovedEdge(l, positions) ==
    {grid[l].cells[p] : p \in {q \in DOMAIN grid[l].cells :
                                  grid[l].cells[q] # None /\ <<q[2], q[1]>> \in positions}}

\* C31: on a successful reduce_towards(dir, n) every element at one of the
\* removed edge positions is detached through the layer's removal path: an
\* element_removed event is sent for it before the reducted event, while the
\* layer's grid still has its size, and afterwards no layer stores it.
C31_EdgeElementsDetached ==
    [][(last'.op = "reduce_towards" /\ last'.ret = "positions") =>
        \A l \in Range(layers) : \A e \in OnRemovedEdge(l, last'.positions) :
            /\ \E i \in DOMAIN events' :
                  /\ events'[i].name = "element_removed"
                  /\ events'[i].element = e
                  /\ events'[i].layer = l
                  /\ events'[i].grid[l].rows = grid[l].rows
                  /\ events'[i].grid[l].cols = grid[l].cols
                  /\ \E j \in DOMAIN events' : j > i /\ events'[j].name = "reducted"
            /\ \A k \in Range(layers) : \A q \in DOMAIN grid'[k].cells :
                  grid'[k].cells[q] # e]_vars

\* the display the rule list of tile's group yields for the neighbourhood the
\* tile has in grid g: that of the first rule matching the neighbor grid of
\* the layer's processor, (0, 0) when none matches
YieldedDisplay(g, tile) ==
    LET matching == MatchingRules(LayerNeighbor, g, tile)
    IN  IF matching = {} THEN <<0, 0>>
        ELSE autotile_rules(tile.name)[CHOOSE k \in matching :
                                          \A j \in matching : k <= j].display

\* the autotile tiles without variations that layer l stores
PlainAutotiles(l) ==
    {grid[l].cells[q] : q \in {c \in DOMAIN grid[l].cells :
                                  /\ grid[l].cells[c].kind = "AutotileTile"
                                  /\ grid[l].cells[c].variations = <<>>}}

\* C32: after any sequence of tile insertions and removals with formatting
\* and of map expand / reduce operations, every autotile tile without
\* variations stored in a layer shows the display its rule list yields for
\* its current neighbourhood.
C32_DisplaysFollowStructure ==
    \A i \in DOMAIN layers : \A tile \in PlainAutotiles(layers[i]) :
        tile.display = YieldedDisplay(grid[layers[i]], tile)

\* C33: after any sequence of add_element, remove_element, expand_towards
\* and reduce_towards, every element stored in cell (x, y) of a layer has
\* position (x, y), and no element is stored in more than one cell of its
\* layer.
C33_PositionIsCell ==
    \A i \in DOMAIN layers :
        LET cells == grid[layers[i]].cells
        IN  /\ \A q \in DOMAIN cells : cells[q] # None => cells[q].position = <<q[2], q[1]>>
            /\ \A q, r \in DOMAIN cells : (q # r /\ cells[q] # None) => cells[q] # cells[r]

\* an expansion at the low edge has moved a stored element
C33_Witness ==
    /\ last.op = "expand_towards"
    /\ last.direction \in {"left", "top"}
    /\ last.size >= 1
    /\ last.ret = "positions"
    /\ \E i \in DOMAIN layers : \E q \in DOMAIN grid[layers[i]].cells :
          /\ grid[layers[i]].cells[q] # None
          /\ grid[layers[i]].cells[q].position # <<0, 0>>

\* C34: when add_element evicts an unlocked occupant of the target cell in
\* the same layer, the element_removed event of that eviction carries the
\* evicted occupant, not the element being added, and comes before the
\* element_created event of the new element.
C34_EvictionEventCarriesOccupant ==
    [][(/\ last'.op = "add_element"
        /\ last'.ret = "True"
        /\ get_element_at(grid[last'.layer], last'.position) # None) =>
        \E i, j \in DOMAIN events' :
            /\ i < j
            /\ events'[i].name = "element_removed"
            /\ events'[i].layer = last'.layer
            /\ events'[i].element = get_element_at(grid[last'.layer], last'.position)
            /\ events'[j].name = "element_created"
            /\ events'[j].element = last'.element]_vars

\* the sum of the weights in a variation table
RECURSIVE WeightSum(_)
WeightSum(variations) ==
    IF variations = <<>> THEN 0 ELSE Head(variations)[2] + WeightSum(Tail(variations))

\* C35: after any sequence of add_variation and reset_variations calls on a
\* tile, its variations_chance_sum is the sum of the weights in its variation
\* table, also when add_variation is called again for a display already in the
\* table, so that format() on a tile with a non-empty table gives the tile
\* the display of one of the table's entries.
C35_ChanceSumIsTableSum ==
    /\ \A p \in DOMAIN grid["B"].cells :
          grid["B"].cells[p] # None =>
              grid["B"].cells[p].variations_chance_sum = WeightSum(grid["B"].cells[p].variations)
    /\ (last.op = "format" /\ TileBefore.kind = "Tile" /\ TileBefore.variations # <<>>) =>
          \E i \in DOMAIN TileBefore.variations :
              last.element.display = TileBefore.variations[i][1]

\* C36: a formatted autotile tile gets the display of the first rule of
\* the list the layer now holds for the tile's group that matches its
\* neighbors, the fallback display only when no rule of that list matches,
\* and the format raises nothing
FirstMatchIn(rules, neighbors_bool_grid) ==
    LET hits == {i \in DOMAIN rules : RuleMatches(rules[i], neighbors_bool_grid)}
    IN  IF hits = {} THEN <<0, 0>>
        ELSE rules[CHOOSE i \in hits : \A j \in hits : i <= j].display

C36_TilesMatchCurrentList ==
    (last.op = "format" /\ last.element # None /\ last.element.kind = "AutotileTile")
    => LET tile == get_element_at(last.before.grid[last.layer], last.position)
           current == rulebook.lists[rulebook.table[tile.name]]
       IN  /\ last.ret \in {"True", "False"}
           /\ last.element.display =
                  FirstMatchIn(current, get_neighbors_bool_grid(last.before.grid[last.layer],
                                                                "eight", FALSE, tile, 1))

\* C37: add_autotile_rule(name, rules) leaves the rule list of every other
\* group of the dict, the default list among them, as it was
C37_OtherGroupsUnchanged ==
    [][(last'.op = "add_autotile_rule" /\ last'.ret = "None")
       => \A other \in DOMAIN rulebook.table \ {last'.name} :
              /\ other \in DOMAIN rulebook'.table
              /\ RulesAt(rulebook', rulebook'.table[other])
                     = RulesAt(rulebook, rulebook.table[other])]_vars

\* C38: a read of layer.index gives the layer's place in map.layers, and a
\* read of layer_above or layer_below the layer one place after or before
\* it, None at the ends, whatever add_layer calls came before
PlaceOf(l) == IndexIn(layers, l)

C38_LayerOrderProperties ==
    /\ last.op = "index" => last.result = <<PlaceOf(last.layer)>>
    /\ last.op = "layer_above"
       => last.result = <<IF PlaceOf(last.layer) + 1 < Len(layers)
                          THEN layers[PlaceOf(last.layer) + 2] ELSE "">>
    /\ last.op = "layer_below"
       => last.result = <<IF PlaceOf(last.layer) >= 1
                          THEN layers[PlaceOf(last.layer)] ELSE "">>

\* C39: the same set of cells filled in two orders gives the same set of
\* lines, each line taken as its start, end and orientation
C39_LinesIndependentOfOrder ==
    last.op = "insert_in_orders" => last.result.lines_first = last.result.lines_second

\* C40: an insertion at a cell that holds a tile of the same group leaves the
\* tracer's lines and the lines its nodes refer to as they were, and neither
\* add_tile nor the creation handler called for the new tile raises
Overwriting(call) ==
    /\ call.op = "add_tile"
    /\ call.before.grid_size # <<0, 0>>
    /\ get_element_at(call.before.grid[call.layer], call.position) # None

TracerUnchanged ==
    /\ tracer'.nodes = tracer.nodes
    /\ tracer'.lines = tracer.lines
    /\ LinesOf(tracer') = LinesOf(tracer)

C40_OverwriteKeepsLines ==
    [][/\ Overwriting(last') => (TracerUnchanged /\ last'.ret = "True")
       /\ (Overwriting(last) /\ last'.op = "_handle_create_tile")
          => (TracerUnchanged /\ last'.ret = "None")]_vars

====
